---- MODULE Spec2Model ----
(***************************************************************************)
(* Virtual pet: the state engine of yipyeeep/virtual-pet-live.             *)
(*                                                                         *)
(* Three kinds of writers share one Redis key, pet:state:                  *)
(*   - the Discord bot's interactionCreate handler (feed, play, reset,     *)
(*     stats), pet-bot/src/bot.ts;                                         *)
(*   - the setTimeout callbacks feed and play leave behind, which put the  *)
(*     activity back to idle;                                              *)
(*   - the pet engine's updatePetBehavior, run once at start and then by   *)
(*     setInterval (the enhanced engine listed in README.md).              *)
(* Every await on a Redis command is a point where the other writers may   *)
(* run, so each Redis command (GET, SET, PUBLISH) and each call that logs  *)
(* a happiness or activity change is one action here, and the values a     *)
(* handler holds between two commands are its local state.                 *)
(* Time is Date.now() in milliseconds.                                     *)
(***************************************************************************)
EXTENDS Integers, Sequences, FiniteSets

\* ------------------------------------------------------------------ bounds
MaxCmds == 2
MaxOps == 3

MaxViewers == 2
MaxWriters == 2
MaxMessages == 3

\* Amounts by which the clock moves between two steps.
TimeSteps == {5000, 8000, 60000}

\* ------------------------------------------------------- program constants
FEED_GAIN == 15
PLAY_GAIN == 10
MAX_HAPPINESS == 100
RESET_HAPPINESS == 50
FEED_REVERT_MS == 5000
PLAY_REVERT_MS == 8000
DECAY_INTERVAL_MS == 300000
LOW_HAPPINESS == 30
ACTIVITY_DURATION_MS == 30000
TICK_PERIOD_MS == 60000
\* Math.random() < 0.3 and < 0.5, with the draw in hundredths
PLAY_BELOW == 30
SLEEP_BELOW == 50
\* Date.now() when the bot module was loaded (initialState.lastUpdate)
BOT_LOAD_TIME == 20000000
\* the stop index of each LTRIM
HAPPINESS_TRIM_STOP == 1999
ACTIVITY_TRIM_STOP == 999
RESPONSE_TRIM_STOP == 999
\* the stop index of each LTRIM of the cleanup job
CLEANUP_HAPPINESS_STOP == 2000
CLEANUP_ACTIVITY_STOP == 2000
CLEANUP_RESPONSE_STOP == 1000
\* the summary: happiness reported for an empty trend, points of trend kept
SUMMARY_DEFAULT_HAPPINESS == 50
SUMMARY_TREND_POINTS == 10

\* the five registered commands, and any name the switch has no case for
CommandNames == {"feed", "play", "reset", "stats", "metrics", "other"}
Cmds == 1..MaxCmds
\* Math.random() in hundredths: one draw in each band and the band edges
Draws == {0, 29, 30, 49, 50, 99}
NoTimer == -1
Viewers == 1..MaxViewers
Writers == 1..MaxWriters

Min(a, b) == IF a <= b THEN a ELSE b
Max(a, b) == IF a >= b THEN a ELSE b

VARIABLES
  now,          \* Date.now()
  ops,          \* operations begun so far: commands, engine calls, clock moves,
                \* logging calls and queries
  store,        \* Redis key pet:state: <<>> when unset, else <<PetState>>
  nEvents,      \* number of messages published on pet_updates
  hpc,          \* per command: where its handler is
  cmd,          \* per command: interaction.commandName
  petState,     \* per command: the handler's petState
  readTime,     \* per command: Date.now() when the handler got petState
  tpc,          \* per command: where its setTimeout callback is
  due,          \* per command: when its setTimeout is due
  currentState, \* per command: the callback's currentState
  epc,          \* engine: where updatePetBehavior is
  started,      \* engine: startPetEngine has made its first call
  nextTick,     \* engine: when setInterval is next due (NoTimer before it is set)
  tcur,         \* engine: updatePetBehavior's currentState
  tnew,         \* engine: updatePetBehavior's newHappiness / newActivity / newState
  tickResult,   \* engine: how the last call returned: "none", "skipped", "written"
  lastEvent,    \* the last message published on pet_updates: <<>> or <<message>>
  \* the websocket gateway (unnamed/part_001)
  gatewayUp,    \* the gateway process is running and subscribed
  received,     \* the payloads the subscribe callback was called with, in order
  emitted,      \* the messages io.emit was called with, in order
  sockets,      \* per viewer: "new", "connected" or "closed"
  joined,       \* per viewer: how many messages had been emitted when it connected
  inbox,        \* per viewer: the messages its socket was sent
  \* the metric keys in Redis and the calls that write and read them
  happiness_history, \* list pet:metrics:happiness_history, newest first
  activity_log,      \* list pet:metrics:activity_log, newest first
  response_times,    \* list pet:metrics:response_times, newest first
  commands,          \* hash pet:metrics:commands
  users,             \* hash pet:metrics:users
  mpc,          \* per metric writer: where its logging call is
  mjob,         \* per metric writer: the arguments of its logging call
  answer,       \* the result of the last query of the metrics service
  \* the start of the processes
  proc,         \* per component: "starting", "running" (connected to Redis),
                \* "detached" (running without its connection) or "exited"
  retry         \* the call of retryWithBackoff made by initializeRedis

vars == <<now, ops, store, nEvents, lastEvent,
          hpc, cmd, petState, readTime, tpc, due, currentState,
          epc, started, nextTick, tcur, tnew, tickResult,
          gatewayUp, received, emitted, sockets, joined, inbox,
          happiness_history, activity_log, response_times, commands, users,
          mpc, mjob, answer, proc, retry>>

startVars == <<proc, retry>>
botVars == <<hpc, cmd, petState, readTime>>
timerVars == <<tpc, due, currentState>>
engineVars == <<epc, started, nextTick, tcur, tnew, tickResult>>
redisVars == <<store, nEvents, lastEvent>>
gatewayVars == <<gatewayUp, received, emitted, sockets, joined, inbox>>
seriesVars == <<happiness_history, activity_log, response_times>>
counterVars == <<commands, users>>
metricsVars == <<seriesVars, counterVars, mpc, mjob, answer>>
clockVars == <<now, ops>>
petVars == <<clockVars, redisVars, botVars, timerVars, engineVars>>

\* ------------------------------------------------------------ pet state
initialState ==
  [happiness |-> RESET_HAPPINESS, activity |-> "idle", lastUpdate |-> BOT_LOAD_TIME]

\* bot.ts getPetState: the stored state, or the module's initialState
getPetState(s) == IF s = <<>> THEN initialState ELSE s[1]

\* engine getPetState: the stored state, or a fresh default stamped now
engineGetPetState(s, t) ==
  IF s = <<>>
    THEN [happiness |-> RESET_HAPPINESS, activity |-> "idle", lastUpdate |-> t]
    ELSE s[1]

\* feed without Math.min(100, ...)
fedStateUnclamped(p, t) ==
  [p EXCEPT !.happiness = p.happiness + FEED_GAIN,
            !.activity = "eating", !.lastUpdate = t]

fedState(p, t) ==
  [p EXCEPT !.happiness = Min(MAX_HAPPINESS, p.happiness + FEED_GAIN),
            !.activity = "eating", !.lastUpdate = t]

\* play with feed's gain
playStateFeedGain(p, t) ==
  [p EXCEPT !.happiness = Min(MAX_HAPPINESS, p.happiness + FEED_GAIN),
            !.activity = "playing", !.lastUpdate = t]

playState(p, t) ==
  [p EXCEPT !.happiness = Min(MAX_HAPPINESS, p.happiness + PLAY_GAIN),
            !.activity = "playing", !.lastUpdate = t]

\* the state the setTimeout callback writes: { ...currentState, activity: 'idle' }
revertState(c) == [c EXCEPT !.activity = "idle"]

\* reset that puts the activity back to idle and keeps the happiness it read
commandStateResetKeepsHappiness(c, p, t) ==
  CASE c = "feed" -> [p EXCEPT !.happiness = Min(MAX_HAPPINESS, p.happiness + FEED_GAIN),
                               !.activity = "eating", !.lastUpdate = t]
    [] c = "play" -> [p EXCEPT !.happiness = Min(MAX_HAPPINESS, p.happiness + PLAY_GAIN),
                               !.activity = "playing", !.lastUpdate = t]
    [] OTHER -> [p EXCEPT !.activity = "idle"]

\* the argument of the handler's setPetState
commandState(c, p, t) ==
  CASE c = "feed" -> fedState(p, t)
    [] c = "play" -> playState(p, t)
    [] OTHER -> initialState

revertDelay(c) == IF c = "feed" THEN FEED_REVERT_MS ELSE PLAY_REVERT_MS

\* ---------------------------------------------------------------- Init
\* Redis outlives the bot and the engine: when they start, pet:state is unset
\* or holds what earlier runs of the same handlers left there.
InitStores ==
  { <<>>,
    <<[happiness |-> 95, activity |-> "idle", lastUpdate |-> BOT_LOAD_TIME - 5000]>>,
    <<[happiness |-> 40, activity |-> "idle", lastUpdate |-> BOT_LOAD_TIME - 900000]>>,
    <<[happiness |-> 2, activity |-> "sleeping", lastUpdate |-> BOT_LOAD_TIME - 1500000]>>,
    <<[happiness |-> 25, activity |-> "sleeping", lastUpdate |-> BOT_LOAD_TIME - 20000]>> }

NoState == [happiness |-> 0, activity |-> "idle", lastUpdate |-> 0]

\* no command has arrived and the engine has not made its first call
PetStart ==
  /\ ops = 0
  /\ store \in InitStores
  /\ nEvents = 0
  /\ lastEvent = <<>>
  /\ hpc = [i \in Cmds |-> "new"]
  /\ cmd = [i \in Cmds |-> "none"]
  /\ petState = [i \in Cmds |-> NoState]
  /\ readTime = [i \in Cmds |-> 0]
  /\ tpc = [i \in Cmds |-> "none"]
  /\ due = [i \in Cmds |-> NoTimer]
  /\ currentState = [i \in Cmds |-> NoState]
  /\ epc = "idle"
  /\ started = FALSE
  /\ nextTick = NoTimer
  /\ tcur = NoState
  /\ tnew = NoState
  /\ tickResult = "none"

PetInit == now = BOT_LOAD_TIME /\ PetStart

\* the gateway has subscribed and no viewer has connected yet
GatewayInit ==
  /\ gatewayUp = TRUE
  /\ received = <<>>
  /\ emitted = <<>>
  /\ sockets = [v \in Viewers |-> "new"]
  /\ joined = [v \in Viewers |-> 0]
  /\ inbox = [v \in Viewers |-> <<>>]

NoJob ==
  [call |-> "none", command |-> "none", user |-> "none", responseTime |-> 0,
   oldValue |-> 0, newValue |-> 0, oldActivity |-> "none", newActivity |-> "none"]
NoAnswer ==
  [query |-> "none", hours |-> 0, at |-> 0, rejected |-> FALSE, input |-> <<>>,
   status |-> 0, result |-> <<>>]
EmptyHash == [k \in {} |-> 0]

\* no logging call is running and nothing has been queried
MetricsIdle ==
  /\ mpc = [w \in Writers |-> "idle"]
  /\ mjob = [w \in Writers |-> NoJob]
  /\ answer = NoAnswer

\* the metric keys do not exist yet
NoMetrics ==
  /\ happiness_history = <<>>
  /\ activity_log = <<>>
  /\ response_times = <<>>
  /\ commands = EmptyHash
  /\ users = EmptyHash

Components == {"engine", "metrics", "gateway"}

NoRetry ==
  [maxRetries |-> 0, baseDelay |-> 0, pc |-> "idle", i |-> 0, calls |-> <<>>,
   waits |-> <<>>, lastError |-> 0, thrown |-> 0, returned |-> 0]

\* every process has started and is connected
Running ==
  /\ proc = [c \in Components |-> "running"]
  /\ retry = NoRetry

Init == PetInit /\ GatewayInit /\ MetricsIdle /\ NoMetrics /\ Running

\* ------------------------------------------------------------- the clock
Advance ==
  /\ ops < MaxOps
  /\ \E d \in TimeSteps : now' = now + d
  /\ ops' = ops + 1
  /\ UNCHANGED <<redisVars, botVars, timerVars, engineVars>>
  /\ UNCHANGED <<gatewayVars, metricsVars, startVars>>

\* The clock reaches the time a pending setTimeout is due.
TimerWait(i) ==
  /\ tpc[i] = "pending"
  /\ now < due[i]
  /\ now' = due[i]
  /\ UNCHANGED <<ops, redisVars, botVars, timerVars, engineVars>>
  /\ UNCHANGED <<gatewayVars, metricsVars, startVars>>

\* ------------------------------------------------------ metric records
\* An element of a metric list is a string. It is modelled by what JSON.parse
\* makes of it: json says whether JSON.parse accepts it, and each field the
\* readers look at is given with its typeof: a number n is [isNumber |-> TRUE,
\* n |-> n], a field that is missing or holds something else has isNumber
\* FALSE (n is then what a numeric reading of the text would give). The
\* activity fields hold the string, or "undefined" when missing.
Absent == [isNumber |-> FALSE, n |-> 0]
Num(n) == [isNumber |-> TRUE, n |-> n]

\* "{}": valid JSON with none of the fields
Blank ==
  [json |-> TRUE, oldValue |-> Absent, newValue |-> Absent, change |-> Absent,
   responseTime |-> Absent,
   activity |-> "undefined", oldActivity |-> "undefined", newActivity |-> "undefined",
   timestamp |-> Absent]

\* a string that is not JSON
NotJson == [Blank EXCEPT !.json = FALSE]

\* JSON.stringify({ oldValue, newValue, change, cause, timestamp })
happinessRecord(old, new, t) ==
  [Blank EXCEPT !.oldValue = Num(old), !.newValue = Num(new),
                !.change = Num(new - old), !.timestamp = Num(t)]

\* JSON.stringify({ oldActivity, newActivity, cause, timestamp })
activityRecord(old, new, t) ==
  [Blank EXCEPT !.oldActivity = old, !.newActivity = new, !.timestamp = Num(t)]

\* JSON.stringify({ command, responseTime, timestamp })
responseTimeRecord(rt, t) ==
  [Blank EXCEPT !.responseTime = Num(rt), !.timestamp = Num(t)]

\* ----------------------------------------------------------- Redis lists
\* LPUSH key element: the element becomes the head of the list
lPush(list, element) == <<element>> \o list

\* an LTRIM that keeps the other end of the list
lTrimKeepsOldest(list, start, stop) ==
  IF Len(list) <= stop - start + 1 THEN list
  ELSE SubSeq(list, Len(list) - (stop - start), Len(list))

\* LTRIM key start stop, with 0 <= start <= stop: the elements at the
\* zero-based positions start..stop are kept
lTrim(list, start, stop) == SubSeq(list, start + 1, Min(stop + 1, Len(list)))

\* --------------------------------------------------------- Redis commands
\* SET pet:state
SetKey(s) == store' = <<s>>

\* the message setPetState publishes
PetUpdate(s, t) == [type |-> "PET_STATE_UPDATE", state |-> s, timestamp |-> t]

\* a PUBLISH that carries the state found in pet:state at that moment
PublishStored(s) ==
  /\ nEvents' = nEvents + 1
  /\ lastEvent' = <<PetUpdate(getPetState(store), now)>>

\* PUBLISH pet_updates
Publish(s) ==
  /\ nEvents' = nEvents + 1
  /\ lastEvent' = <<PetUpdate(s, now)>>

\* ------------------------------------------------ the bot's command handler
\* The state the handler of command i passes to setPetState. It is built
\* as soon as getPetState returns, so its lastUpdate is the time of the read.
newStateOf(i) == commandState(cmd[i], petState[i], readTime[i])

\* interactionCreate: the handler starts and its GET pet:state is executed.
\* Commands are numbered in the order they arrive. reset calls
\* logHappinessChange before setPetState, feed and play call it after.
Interaction(i, c) ==
  /\ hpc[i] = "new"
  /\ \A j \in Cmds : j < i => hpc[j] # "new"
  /\ ops < MaxOps
  /\ ops' = ops + 1
  /\ cmd' = [cmd EXCEPT ![i] = c]
  /\ petState' = [petState EXCEPT ![i] = getPetState(store)]
  /\ readTime' = [readTime EXCEPT ![i] = now]
  /\ hpc' = [hpc EXCEPT ![i] = IF c = "reset" THEN "read" ELSE "got"]
  /\ UNCHANGED <<now, redisVars, timerVars, engineVars>>
  /\ UNCHANGED <<gatewayVars, metricsVars, startVars>>

\* every case of the switch calling setPetState
setsPetStateAlways(c) == TRUE

\* the cases of the switch that call setPetState
setsPetState(c) == c \in {"feed", "play", "reset"}

\* feed, play, reset: setPetState's SET is executed
CommandSet(i) ==
  /\ hpc[i] = "got"
  /\ setsPetState(cmd[i])
  /\ SetKey(newStateOf(i))
  /\ hpc' = [hpc EXCEPT ![i] = "set"]
  /\ UNCHANGED <<clockVars, nEvents, lastEvent, cmd, petState, readTime,
                 timerVars, engineVars>>
  /\ UNCHANGED <<gatewayVars, metricsVars, startVars>>

\* feed, play, reset: setPetState's PUBLISH is executed
CommandPublish(i) ==
  /\ hpc[i] = "set"
  /\ Publish(newStateOf(i))
  /\ hpc' = [hpc EXCEPT ![i] = "published"]
  /\ UNCHANGED <<clockVars, store, cmd, petState, readTime,
                 timerVars, engineVars>>
  /\ UNCHANGED <<gatewayVars, metricsVars, startVars>>

\* the bot's logHappinessChange(petState.happiness, new happiness, cause):
\* LPUSH of the record and LTRIM, whether or not the two values differ. (The
\* lists of this specification are far below their caps, where the LTRIM
\* changes nothing; MetricsSpec has the two commands apart on full lists.)
HandlerLogHappiness(i) ==
  /\ \/ hpc[i] = "read" /\ hpc' = [hpc EXCEPT ![i] = "got"]
     \/ /\ hpc[i] = "published"
        /\ cmd[i] \in {"feed", "play"}
        /\ hpc' = [hpc EXCEPT ![i] = "logged"]
  /\ happiness_history' =
       lTrim(lPush(happiness_history,
                   happinessRecord(petState[i].happiness, newStateOf(i).happiness, now)),
             0, HAPPINESS_TRIM_STOP)
  /\ UNCHANGED <<clockVars, redisVars, cmd, petState, readTime, timerVars, engineVars>>
  /\ UNCHANGED <<gatewayVars, activity_log, response_times, counterVars, mpc, mjob, answer,
                 startVars>>

\* feed, play: interaction.reply returns and setTimeout is called;
\* reset: interaction.reply returns. (The logCommandMetrics call that ends
\* every handler writes the command counters and the response times only:
\* it is LogCommandMetrics, in QuerySpec and MetricsSpec.)
CommandReply(i) ==
  /\ hpc[i] = IF cmd[i] \in {"feed", "play"} THEN "logged" ELSE "published"
  /\ hpc' = [hpc EXCEPT ![i] = "done"]
  /\ IF cmd[i] \in {"feed", "play"}
       THEN /\ tpc' = [tpc EXCEPT ![i] = "pending"]
            /\ due' = [due EXCEPT ![i] = now + revertDelay(cmd[i])]
            /\ UNCHANGED cmd
       ELSE /\ cmd' = [cmd EXCEPT ![i] = "none"]
            /\ UNCHANGED <<tpc, due>>
  /\ petState' = [petState EXCEPT ![i] = NoState]
  /\ readTime' = [readTime EXCEPT ![i] = 0]
  /\ UNCHANGED <<clockVars, redisVars, currentState, engineVars>>
  /\ UNCHANGED <<gatewayVars, metricsVars, startVars>>

\* An awaited call after the SET rejects (publish, logHappinessChange's lPush
\* or lTrim, interaction.reply): the handler has no try/catch, so it ends
\* there and the statements after the await, setTimeout among them, never run.
CommandFail(i) ==
  /\ hpc[i] \in {"set", "published", "logged"}
  /\ hpc' = [hpc EXCEPT ![i] = "failed"]
  /\ cmd' = [cmd EXCEPT ![i] = "none"]
  /\ petState' = [petState EXCEPT ![i] = NoState]
  /\ readTime' = [readTime EXCEPT ![i] = 0]
  /\ UNCHANGED <<clockVars, redisVars, timerVars, engineVars>>
  /\ UNCHANGED <<gatewayVars, metricsVars, startVars>>

\* stats: the reply is made from petState, nothing is written. metrics: the
\* reply is made from the counters read with hGetAll and hLen. A name without
\* a case: the switch does nothing. Then logCommandMetrics, as for every
\* command, which writes metric keys and publishes on metrics_updates only.
StatsReply(i) ==
  /\ hpc[i] = "got"
  /\ ~setsPetState(cmd[i])
  /\ hpc' = [hpc EXCEPT ![i] = "done"]
  /\ cmd' = [cmd EXCEPT ![i] = "none"]
  /\ petState' = [petState EXCEPT ![i] = NoState]
  /\ readTime' = [readTime EXCEPT ![i] = 0]
  /\ UNCHANGED <<clockVars, redisVars, timerVars, engineVars>>
  /\ UNCHANGED <<gatewayVars, metricsVars, startVars>>

\* ------------------------------------------------- the setTimeout callbacks
\* the timer of command i fires: the callback's GET pet:state is executed
RevertGet(i) ==
  /\ tpc[i] = "pending"
  /\ now >= due[i]
  /\ currentState' = [currentState EXCEPT ![i] = getPetState(store)]
  /\ tpc' = [tpc EXCEPT ![i] = "got"]
  /\ UNCHANGED <<clockVars, redisVars, botVars, due, engineVars>>
  /\ UNCHANGED <<gatewayVars, metricsVars, startVars>>

\* the callback's setPetState: SET
RevertSet(i) ==
  /\ tpc[i] = "got"
  /\ SetKey(revertState(currentState[i]))
  /\ tpc' = [tpc EXCEPT ![i] = "set"]
  /\ UNCHANGED <<clockVars, nEvents, lastEvent, botVars, due, currentState, engineVars>>
  /\ UNCHANGED <<gatewayVars, metricsVars, startVars>>

\* the callback's setPetState: PUBLISH
RevertPublish(i) ==
  /\ tpc[i] = "set"
  /\ Publish(revertState(currentState[i]))
  /\ tpc' = [tpc EXCEPT ![i] = "done"]
  /\ due' = [due EXCEPT ![i] = NoTimer]
  /\ currentState' = [currentState EXCEPT ![i] = NoState]
  /\ cmd' = [cmd EXCEPT ![i] = "none"]
  /\ UNCHANGED <<clockVars, store, hpc, petState, readTime, engineVars>>
  /\ UNCHANGED <<gatewayVars, metricsVars, startVars>>

\* ------------------------------------------------------------ the engine
\* one point lost per tick period instead of per five minutes
decayedHappinessPerPeriod(cur, t) ==
  Max(0, cur.happiness - ((t - cur.lastUpdate) \div TICK_PERIOD_MS))

\* Math.max(0, happiness - Math.floor(timeSinceLastUpdate / (5 * 60 * 1000)))
decayedHappiness(cur, t) ==
  Max(0, cur.happiness - ((t - cur.lastUpdate) \div DECAY_INTERVAL_MS))

\* playing and sleeping ended by the next call, whatever their age
nextActivityNoDuration(cur, newHappiness, rand, t) ==
  IF cur.activity = "idle"
    THEN IF newHappiness < LOW_HAPPINESS THEN "sleeping"
         ELSE IF rand < PLAY_BELOW THEN "playing"
         ELSE IF rand < SLEEP_BELOW THEN "sleeping"
         ELSE "idle"
  ELSE "idle"

\* the draw looked at before the low-happiness test
nextActivityDrawFirst(cur, newHappiness, rand, t) ==
  IF cur.activity = "idle"
    THEN IF rand < PLAY_BELOW THEN "playing"
         ELSE IF newHappiness < LOW_HAPPINESS \/ rand < SLEEP_BELOW THEN "sleeping"
         ELSE "idle"
  ELSE IF cur.activity \in {"playing", "sleeping"}
    THEN IF t - cur.lastUpdate > ACTIVITY_DURATION_MS THEN "idle" ELSE cur.activity
  ELSE "idle"

\* newActivity, from the draw rand (in hundredths) and Date.now() = t
nextActivity(cur, newHappiness, rand, t) ==
  IF cur.activity = "idle"
    THEN IF newHappiness < LOW_HAPPINESS THEN "sleeping"
         ELSE IF rand < PLAY_BELOW THEN "playing"
         ELSE IF rand < SLEEP_BELOW THEN "sleeping"
         ELSE "idle"
  ELSE IF cur.activity \in {"playing", "sleeping"}
    THEN IF t - cur.lastUpdate > ACTIVITY_DURATION_MS THEN "idle" ELSE cur.activity
  ELSE "idle"

\* the write guard left out: setPetState on every call
somethingChangedAlways(new, cur) == TRUE

\* "Only update if something changed"
somethingChanged(new, cur) ==
  new.happiness # cur.happiness \/ new.activity # cur.activity

\* startPetEngine makes the first call; setInterval makes the later ones
TickDue == ~started \/ (nextTick # NoTimer /\ now >= nextTick)

\* setInterval left out: no callback is ever scheduled
WhenReturnedUnarmed == nextTick

\* setInterval is called when the first updatePetBehavior has returned
WhenReturned == IF nextTick = NoTimer THEN now + TICK_PERIOD_MS ELSE nextTick

\* updatePetBehavior starts and its GET pet:state is executed. With the
\* happiness unchanged nothing is awaited before the activity is decided, and
\* with the activity unchanged too nothing is awaited before the write guard:
\* the call returns without a SET. Its locals stay as they were on return.
\* (A call is not started while the previous one is still running.)
TickGet(rand) ==
  /\ epc = "idle"
  /\ TickDue
  /\ ops < MaxOps
  /\ ops' = ops + 1
  /\ started' = TRUE
  /\ LET cur == engineGetPetState(store, now)
         h == decayedHappiness(cur, now)
         a == nextActivity(cur, h, rand, now)
         newState == [happiness |-> h, activity |-> a, lastUpdate |-> now]
         armed == IF nextTick = NoTimer THEN NoTimer ELSE now + TICK_PERIOD_MS
     IN /\ tcur' = cur
        /\ IF h # cur.happiness
             THEN /\ epc' = "logHappiness"
                  /\ tnew' = [newState EXCEPT !.activity = cur.activity]
                  /\ nextTick' = armed
                  /\ UNCHANGED <<tickResult, store>>
             ELSE /\ tnew' = newState
                  /\ IF a # cur.activity
                       THEN /\ epc' = "logActivity"
                            /\ nextTick' = armed
                            /\ UNCHANGED <<tickResult, store>>
                       ELSE IF somethingChanged(newState, cur)
                         THEN /\ epc' = "set"
                              /\ SetKey(newState)
                              /\ nextTick' = armed
                              /\ UNCHANGED tickResult
                         ELSE /\ epc' = "idle"
                              /\ nextTick' = now + TICK_PERIOD_MS
                              /\ tickResult' = "skipped"
                              /\ UNCHANGED store
  /\ UNCHANGED <<now, nEvents, lastEvent, botVars, timerVars>>
  /\ UNCHANGED <<gatewayVars, metricsVars, startVars>>

\* the engine's logHappinessChange(old, new, 'natural_decay') is executed,
\* LPUSH and LTRIM, and returns: the activity is decided
TickLogHappiness(rand) ==
  /\ epc = "logHappiness"
  /\ happiness_history' =
       lTrim(lPush(happiness_history,
                   happinessRecord(tcur.happiness, tnew.happiness, now)),
             0, HAPPINESS_TRIM_STOP)
  /\ LET a == nextActivity(tcur, tnew.happiness, rand, now)
     IN /\ tnew' = [happiness |-> tnew.happiness, activity |-> a, lastUpdate |-> now]
        /\ epc' = IF a # tcur.activity THEN "logActivity" ELSE "ready"
  /\ UNCHANGED <<clockVars, redisVars, botVars, timerVars,
                 started, nextTick, tcur, tickResult>>
  /\ UNCHANGED <<gatewayVars, activity_log, response_times, counterVars, mpc, mjob, answer,
                 startVars>>

\* logActivityChange(old, new, 'autonomous_behavior') is executed, LPUSH and
\* LTRIM, and returns: newState is built
TickLogActivity ==
  /\ epc = "logActivity"
  /\ activity_log' =
       lTrim(lPush(activity_log, activityRecord(tcur.activity, tnew.activity, now)),
             0, ACTIVITY_TRIM_STOP)
  /\ tnew' = [tnew EXCEPT !.lastUpdate = now]
  /\ epc' = "ready"
  /\ UNCHANGED <<clockVars, redisVars, botVars, timerVars,
                 started, nextTick, tcur, tickResult>>
  /\ UNCHANGED <<gatewayVars, happiness_history, response_times, counterVars, mpc, mjob,
                 answer, startVars>>

\* setPetState(newState): SET
TickSet ==
  /\ epc = "ready"
  /\ somethingChanged(tnew, tcur)
  /\ SetKey(tnew)
  /\ epc' = "set"
  /\ UNCHANGED <<clockVars, nEvents, lastEvent, botVars, timerVars,
                 started, nextTick, tcur, tnew, tickResult>>
  /\ UNCHANGED <<gatewayVars, metricsVars, startVars>>

\* setPetState(newState): PUBLISH, and updatePetBehavior returns
TickPublish ==
  /\ epc = "set"
  /\ Publish(tnew)
  /\ epc' = "idle"
  /\ nextTick' = WhenReturned
  /\ tcur' = NoState
  /\ tnew' = NoState
  /\ tickResult' = "written"
  /\ UNCHANGED <<clockVars, store, botVars, timerVars, started>>
  /\ UNCHANGED <<gatewayVars, metricsVars, startVars>>

\* updatePetBehavior starts and its GET pet:state rejects. The call that
\* startPetEngine awaits is inside its outer try only, whose catch logs and
\* calls process.exit(1); a call made by the setInterval callback is inside
\* the callback's own try, whose catch logs and returns.
TickGetFail ==
  /\ epc = "idle"
  /\ TickDue
  /\ ops < MaxOps
  /\ ops' = ops + 1
  /\ started' = TRUE
  /\ tickResult' = "failed"
  /\ IF nextTick = NoTimer
       THEN epc' = "exited" /\ UNCHANGED nextTick
       ELSE epc' = "idle" /\ nextTick' = now + TICK_PERIOD_MS
  /\ UNCHANGED <<now, redisVars, botVars, timerVars, tcur, tnew>>
  /\ UNCHANGED <<gatewayVars, metricsVars, startVars>>

\* A later awaited call of updatePetBehavior rejects: logHappinessChange,
\* logActivityChange, or setPetState's SET or PUBLISH. The same two catch
\* blocks: the process exits when the call was startPetEngine's own.
TickFail ==
  /\ epc \in {"logHappiness", "logActivity", "ready", "set"}
  /\ epc' = IF nextTick = NoTimer THEN "exited" ELSE "idle"
  /\ tickResult' = "failed"
  /\ tcur' = NoState
  /\ tnew' = NoState
  /\ UNCHANGED <<clockVars, redisVars, botVars, timerVars, started, nextTick>>
  /\ UNCHANGED <<gatewayVars, metricsVars, startVars>>

\* The clock reaches the time the next setInterval callback is due. (The Redis
\* calls of one updatePetBehavior take less than the 60 s period.)
IntervalWait ==
  /\ epc = "idle"
  /\ nextTick # NoTimer
  /\ now < nextTick
  /\ now' = nextTick
  /\ UNCHANGED <<ops, redisVars, botVars, timerVars, engineVars>>
  /\ UNCHANGED <<gatewayVars, metricsVars, startVars>>

\* --------------------------------------------------- the websocket gateway
\* A payload on pet_updates: a string that JSON.parse accepts, giving value,
\* or one it rejects with a SyntaxError.
Payloads ==
  { [json |-> TRUE, value |-> PetUpdate(initialState, BOT_LOAD_TIME)],
    [json |-> TRUE,
     value |-> PetUpdate([happiness |-> 65, activity |-> "eating",
                          lastUpdate |-> BOT_LOAD_TIME + 5000], BOT_LOAD_TIME + 5000)],
    [json |-> TRUE,
     value |-> [type |-> "COMMAND_EXECUTED", state |-> NoState, timestamp |-> BOT_LOAD_TIME]],
    [json |-> FALSE, value |-> [type |-> "", state |-> NoState, timestamp |-> 0]] }

\* { type: 'ERROR', message: 'Invalid JSON' }
ErrorMessage == [type |-> "ERROR", message |-> "Invalid JSON"]

\* JSON.parse without the try/catch: the SyntaxError leaves the callback
parseMessageNoCatch(m) ==
  IF m.json THEN [thrown |-> FALSE, parsedMessage |-> m.value]
  ELSE [thrown |-> TRUE, parsedMessage |-> ErrorMessage]

\* the try/catch around JSON.parse: parsedMessage is the parsed value, or the
\* ERROR message when JSON.parse throws; nothing is thrown to the caller
parseMessage(m) ==
  IF m.json THEN [thrown |-> FALSE, parsedMessage |-> m.value]
  ELSE [thrown |-> FALSE, parsedMessage |-> ErrorMessage]

\* an emit that reaches only the first connected socket
ioEmitFirstOnly(boxes, socks, msg) ==
  [v \in Viewers |->
     IF socks[v] = "connected" /\ (\A u \in Viewers : u < v => socks[u] # "connected")
       THEN Append(boxes[v], msg) ELSE boxes[v]]

\* io.emit('pet_update', msg): msg is sent to every socket connected now
ioEmit(boxes, socks, msg) ==
  [v \in Viewers |-> IF socks[v] = "connected" THEN Append(boxes[v], msg) ELSE boxes[v]]

\* io.on('connection'): a viewer's socket connects; nothing is sent to it
Connect(v) ==
  /\ gatewayUp
  /\ sockets[v] = "new"
  /\ sockets' = [sockets EXCEPT ![v] = "connected"]
  /\ joined' = [joined EXCEPT ![v] = Len(emitted)]
  /\ UNCHANGED <<gatewayUp, received, emitted, inbox, petVars, metricsVars, startVars>>

\* socket.on('disconnect')
Disconnect(v) ==
  /\ sockets[v] = "connected"
  /\ sockets' = [sockets EXCEPT ![v] = "closed"]
  /\ UNCHANGED <<gatewayUp, received, emitted, joined, inbox, petVars, metricsVars, startVars>>

\* the subscribe callback is called with payload m. An exception that leaves
\* the callback is uncaught and ends the process.
OnMessage(m) ==
  /\ gatewayUp
  /\ Len(received) < MaxMessages
  /\ received' = Append(received, m)
  /\ LET p == parseMessage(m)
     IN IF p.thrown
          THEN /\ gatewayUp' = FALSE
               /\ UNCHANGED <<emitted, inbox>>
          ELSE /\ emitted' = Append(emitted, p.parsedMessage)
               /\ inbox' = ioEmit(inbox, sockets, p.parsedMessage)
               /\ UNCHANGED gatewayUp
  /\ UNCHANGED <<sockets, joined, petVars, metricsVars, startVars>>

GatewayNext ==
  \/ \E v \in Viewers : Connect(v)
  \/ \E v \in Viewers : Disconnect(v)
  \/ \E m \in Payloads : OnMessage(m)

\* The gateway process with any payloads arriving on the channel.
GatewayStart ==
  PetInit /\ store = <<>> /\ GatewayInit /\ MetricsIdle /\ NoMetrics /\ Running

GatewaySpec == GatewayStart /\ [][GatewayNext]_vars

\* ---------------------------------------------------------- Redis hashes
hGet(hash, field) == IF field \in DOMAIN hash THEN hash[field] ELSE 0

\* an increment that stores the increment itself
hIncrByOverwrites(hash, field, n) ==
  [k \in DOMAIN hash \cup {field} |-> IF k = field THEN n ELSE hash[k]]

\* HINCRBY key field n: a field that does not exist is created at n
hIncrBy(hash, field, n) ==
  [k \in DOMAIN hash \cup {field} |-> IF k = field THEN hGet(hash, field) + n ELSE hash[k]]

\* ------------------------------------------------- metrics service: utils
Null == <<>>

isValidActivity(activity) == activity \in {"idle", "playing", "sleeping", "eating"}

\* parseHappinessEntry: null, or the parsed object
parseHappinessEntry(data) ==
  IF ~data.json \/ ~data.newValue.isNumber \/ ~data.timestamp.isNumber
    THEN Null ELSE <<data>>

\* parseActivityEntry
parseActivityEntry(data) ==
  IF ~data.json \/ ~isValidActivity(data.activity) \/ ~data.timestamp.isNumber
    THEN Null ELSE <<data>>

\* parseResponseTimeEntry without the typeof checks
parseResponseTimeEntryUnchecked(data) ==
  IF ~data.json THEN Null ELSE <<data>>

\* parseResponseTimeEntry
parseResponseTimeEntry(data) ==
  IF ~data.json \/ ~data.responseTime.isNumber \/ ~data.timestamp.isNumber
    THEN Null ELSE <<data>>

\* Date.now() - hours * 60 * 60 * 1000, with Date.now() = t
getTimeCutoff(hours, t) == t - (hours * 60 * 60 * 1000)

\* data.filter(item => item.timestamp > cutoff)
filterByTimeRange(data, hours, t) ==
  SelectSeq(data, LAMBDA item : item.timestamp.n > getTimeCutoff(hours, t))

\* Array.prototype.sort with (a, b) => a.timestamp - b.timestamp: a stable
\* sort, so equal timestamps keep their order
RECURSIVE insertByTimestamp(_, _)
insertByTimestamp(sorted, item) ==
  IF sorted = <<>> THEN <<item>>
  ELSE IF sorted[Len(sorted)].timestamp.n <= item.timestamp.n
    THEN Append(sorted, item)
  ELSE Append(insertByTimestamp(SubSeq(sorted, 1, Len(sorted) - 1), item),
              sorted[Len(sorted)])

\* the list returned as it is
sortByTimestampUnsorted(data) == data

RECURSIVE sortByTimestamp(_)
sortByTimestamp(data) ==
  IF data = <<>> THEN <<>>
  ELSE insertByTimestamp(sortByTimestamp(SubSeq(data, 1, Len(data) - 1)),
                         data[Len(data)])

RECURSIVE sumOf(_)
sumOf(numbers) ==
  IF numbers = <<>> THEN 0 ELSE numbers[1] + sumOf(Tail(numbers))

\* getMaxValue: 0 for an empty array
RECURSIVE getMaxValue(_)
getMaxValue(numbers) ==
  IF numbers = <<>> THEN 0
  ELSE IF Len(numbers) = 1 THEN numbers[1]
  ELSE Max(numbers[1], getMaxValue(Tail(numbers)))

\* Math.round(calculateAverage(numbers)) for numbers that are not negative:
\* the mean rounded to the nearest integer, halves upwards; 0 for none
roundedAverage(numbers) ==
  IF numbers = <<>> THEN 0
  ELSE (2 * sumOf(numbers) + Len(numbers)) \div (2 * Len(numbers))

\* convertHashToNumbers: parseInt(value, 10) || 0 on the decimal strings
\* HINCRBY keeps
convertHashToNumbers(hash) == [k \in DOMAIN hash |-> hash[k]]

RECURSIVE sumOfValues(_, _)
sumOfValues(counts, keys) ==
  IF keys = {} THEN 0
  ELSE LET k == CHOOSE x \in keys : TRUE
       IN counts[k] + sumOfValues(counts, keys \ {k})

\* ----------------------------------------------- metrics service: queries
\* (.map(parse).filter(item => item !== null) keeps the elements that parse)
getHappinessTrends(history, hours, t) ==
  LET trends == SelectSeq(history, LAMBDA data : parseHappinessEntry(data) # Null)
  IN sortByTimestamp(filterByTimeRange(trends, hours, t))

getActivityDistribution(activities, hours, t) ==
  LET parsedActivities ==
        SelectSeq(activities, LAMBDA data : parseActivityEntry(data) # Null)
      filtered == filterByTimeRange(parsedActivities, hours, t)
  IN [a \in {"idle", "playing", "sleeping", "eating"} |->
        Cardinality({i \in 1..Len(filtered) : filtered[i].activity = a})]

getCommandStats(commandsHash, usersHash) ==
  LET commandCounts == convertHashToNumbers(commandsHash)
      userCounts == convertHashToNumbers(usersHash)
  IN [commandCounts |-> commandCounts,
      userCounts |-> userCounts,
      totalCommands |-> sumOfValues(commandCounts, DOMAIN commandCounts),
      totalUsers |-> Cardinality(DOMAIN userCounts)]

\* (uptime, process.uptime(), is left out)
getSystemMetrics(responseTimes) ==
  LET entries == SelectSeq(responseTimes, LAMBDA data : parseResponseTimeEntry(data) # Null)
      all == [i \in 1..Len(entries) |-> entries[i].responseTime.n]
      times == SelectSeq(all, LAMBDA time : time > 0)
  IN [averageResponseTime |-> roundedAverage(times),
      maxResponseTime |-> getMaxValue(times),
      totalRequests |-> Len(times)]

\* ------------------------------------------------ the metric logging calls
\* everything a logging call leaves alone apart from the metric keys
aboveMetrics ==
  <<now, redisVars, botVars, timerVars, engineVars, gatewayVars, answer, startVars>>

\* A logging call that begins takes the first writer that is not running one.
firstIdle(w) == mpc[w] = "idle" /\ \A v \in Writers : v < w => mpc[v] # "idle"

\* logCommandMetrics is called: HINCRBY pet:metrics:commands is executed.
\* (The daily and hourly hashes that follow are read by no query.)
LogCommandMetrics(w, command, userId, responseTime) ==
  /\ firstIdle(w)
  /\ ops < MaxOps
  /\ ops' = ops + 1
  /\ commands' = hIncrBy(commands, command, 1)
  /\ mjob' = [mjob EXCEPT ![w] = [NoJob EXCEPT !.call = "logCommandMetrics",
                                               !.command = command, !.user = userId,
                                               !.responseTime = responseTime]]
  /\ mpc' = [mpc EXCEPT ![w] = "users"]
  /\ UNCHANGED <<aboveMetrics, seriesVars, users>>

\* logCommandMetrics: HINCRBY pet:metrics:users
IncrUser(w) ==
  /\ mpc[w] = "users"
  /\ users' = hIncrBy(users, mjob[w].user, 1)
  /\ mpc' = [mpc EXCEPT ![w] = "push"]
  /\ UNCHANGED <<ops, aboveMetrics, seriesVars, commands, mjob>>

\* logCommandMetrics: LPUSH pet:metrics:response_times
PushResponseTime(w) ==
  /\ mpc[w] = "push"
  /\ response_times' =
       lPush(response_times, responseTimeRecord(mjob[w].responseTime, now))
  /\ mpc' = [mpc EXCEPT ![w] = "trimResponseTimes"]
  /\ UNCHANGED <<ops, aboveMetrics, happiness_history, activity_log, counterVars, mjob>>

\* logCommandMetrics: LTRIM pet:metrics:response_times 0 999, and the call
\* returns (its publish on metrics_updates has no subscriber here)
TrimResponseTimes(w) ==
  /\ mpc[w] = "trimResponseTimes"
  /\ response_times' = lTrim(response_times, 0, RESPONSE_TRIM_STOP)
  /\ mpc' = [mpc EXCEPT ![w] = "idle"]
  /\ mjob' = [mjob EXCEPT ![w] = NoJob]
  /\ UNCHANGED <<ops, aboveMetrics, happiness_history, activity_log, counterVars>>

\* the bot's logHappinessChange is called: LPUSH pet:metrics:happiness_history
LogHappinessChange(w, oldHappiness, newHappiness) ==
  /\ firstIdle(w)
  /\ ops < MaxOps
  /\ ops' = ops + 1
  /\ happiness_history' =
       lPush(happiness_history, happinessRecord(oldHappiness, newHappiness, now))
  /\ mjob' = [mjob EXCEPT ![w] = [NoJob EXCEPT !.call = "logHappinessChange",
                                               !.oldValue = oldHappiness,
                                               !.newValue = newHappiness]]
  /\ mpc' = [mpc EXCEPT ![w] = "trimHappiness"]
  /\ UNCHANGED <<aboveMetrics, activity_log, response_times, counterVars>>

\* the engine's logHappinessChange is called: it pushes only when the
\* happiness has changed
EngineLogHappinessChange(w, oldHappiness, newHappiness) ==
  /\ firstIdle(w)
  /\ ops < MaxOps
  /\ ops' = ops + 1
  /\ IF oldHappiness # newHappiness
       THEN /\ happiness_history' =
                 lPush(happiness_history, happinessRecord(oldHappiness, newHappiness, now))
            /\ mjob' = [mjob EXCEPT ![w] = [NoJob EXCEPT !.call = "logHappinessChange",
                                                         !.oldValue = oldHappiness,
                                                         !.newValue = newHappiness]]
            /\ mpc' = [mpc EXCEPT ![w] = "trimHappiness"]
       ELSE UNCHANGED <<happiness_history, mjob, mpc>>
  /\ UNCHANGED <<aboveMetrics, activity_log, response_times, counterVars>>

\* logHappinessChange: LTRIM pet:metrics:happiness_history 0 1999
TrimHappiness(w) ==
  /\ mpc[w] = "trimHappiness"
  /\ happiness_history' = lTrim(happiness_history, 0, HAPPINESS_TRIM_STOP)
  /\ mpc' = [mpc EXCEPT ![w] = "idle"]
  /\ mjob' = [mjob EXCEPT ![w] = NoJob]
  /\ UNCHANGED <<ops, aboveMetrics, activity_log, response_times, counterVars>>

\* the engine's logActivityChange is called: LPUSH pet:metrics:activity_log
LogActivityChange(w, oldActivity, newActivity) ==
  /\ firstIdle(w)
  /\ ops < MaxOps
  /\ ops' = ops + 1
  /\ activity_log' = lPush(activity_log, activityRecord(oldActivity, newActivity, now))
  /\ mjob' = [mjob EXCEPT ![w] = [NoJob EXCEPT !.call = "logActivityChange",
                                               !.oldActivity = oldActivity,
                                               !.newActivity = newActivity]]
  /\ mpc' = [mpc EXCEPT ![w] = "trimActivity"]
  /\ UNCHANGED <<aboveMetrics, happiness_history, response_times, counterVars>>

\* logActivityChange: LTRIM pet:metrics:activity_log 0 999
TrimActivity(w) ==
  /\ mpc[w] = "trimActivity"
  /\ activity_log' = lTrim(activity_log, 0, ACTIVITY_TRIM_STOP)
  /\ mpc' = [mpc EXCEPT ![w] = "idle"]
  /\ mjob' = [mjob EXCEPT ![w] = NoJob]
  /\ UNCHANGED <<ops, aboveMetrics, happiness_history, response_times, counterVars>>

\* ----------------------------------------- metrics service: the cleanup job
\* runDataCleanup, called by setInterval every cleanupIntervalHours: three
\* LTRIMs sent together with Promise.all. Each is atomic on its own key and
\* no other command touches two of the keys, so wherever the commands of the
\* logging calls fall between them the outcome is that of one step.
RunDataCleanup ==
  /\ ops < MaxOps
  /\ ops' = ops + 1
  /\ happiness_history' = lTrim(happiness_history, 0, CLEANUP_HAPPINESS_STOP)
  /\ activity_log' = lTrim(activity_log, 0, CLEANUP_ACTIVITY_STOP)
  /\ response_times' = lTrim(response_times, 0, CLEANUP_RESPONSE_STOP)
  /\ UNCHANGED <<aboveMetrics, counterVars, mpc, mjob>>

\* ------------------------------------------- metrics service: the endpoints
belowAnswer ==
  <<now, redisVars, botVars, timerVars, engineVars, gatewayVars,
    seriesVars, counterVars, mpc, mjob, startVars>>

\* In an answer, rejected tells whether the Redis read of the query was
\* rejected, input is what the read returned (nothing when it was rejected),
\* status is the HTTP status of the response and result its body. Each query
\* function has its own try/catch, which logs the error and returns an empty
\* value; the handler's catch, which answers 500, is reached only by an
\* exception the function lets out, and gets none from a rejected read.

\* GET /api/metrics/happiness-trends?hours=
\* (getHappinessTrends' catch: return [])
HappinessTrends(hours, rejects) ==
  /\ ops < MaxOps
  /\ ops' = ops + 1
  /\ answer' = [query |-> "happinessTrends", hours |-> hours, at |-> now,
                rejected |-> rejects,
                input |-> IF rejects THEN <<>> ELSE happiness_history,
                status |-> 200,
                result |-> IF rejects THEN <<>>
                           ELSE getHappinessTrends(happiness_history, hours, now)]
  /\ UNCHANGED belowAnswer

\* GET /api/metrics/activity-distribution?hours=
\* (getActivityDistribution's catch: return { idle: 0, playing: 0, ... })
ActivityDistribution(hours, rejects) ==
  /\ ops < MaxOps
  /\ ops' = ops + 1
  /\ answer' = [query |-> "activityDistribution", hours |-> hours, at |-> now,
                rejected |-> rejects,
                input |-> IF rejects THEN <<>> ELSE activity_log,
                status |-> 200,
                result |-> IF rejects
                             THEN [a \in {"idle", "playing", "sleeping", "eating"} |-> 0]
                             ELSE getActivityDistribution(activity_log, hours, now)]
  /\ UNCHANGED belowAnswer

\* GET /api/metrics/commands
\* (getCommandStats' catch: return { commandCounts: {}, userCounts: {}, 0, 0 })
CommandStats(rejects) ==
  /\ ops < MaxOps
  /\ ops' = ops + 1
  /\ answer' = [query |-> "commandStats", hours |-> 0, at |-> now,
                rejected |-> rejects,
                input |-> IF rejects THEN <<EmptyHash, EmptyHash>> ELSE <<commands, users>>,
                status |-> 200,
                result |-> IF rejects
                             THEN [commandCounts |-> EmptyHash, userCounts |-> EmptyHash,
                                   totalCommands |-> 0, totalUsers |-> 0]
                             ELSE getCommandStats(commands, users)]
  /\ UNCHANGED belowAnswer

\* GET /api/metrics/system
\* (getSystemMetrics' catch: return { 0, 0, 0, uptime })
SystemMetrics(rejects) ==
  /\ ops < MaxOps
  /\ ops' = ops + 1
  /\ answer' = [query |-> "systemMetrics", hours |-> 0, at |-> now,
                rejected |-> rejects,
                input |-> IF rejects THEN <<>> ELSE response_times,
                status |-> 200,
                result |-> IF rejects
                             THEN [averageResponseTime |-> 0, maxResponseTime |-> 0,
                                   totalRequests |-> 0]
                             ELSE getSystemMetrics(response_times)]
  /\ UNCHANGED belowAnswer

\* GET /health, asked while the service's Redis connection is up (connected)
\* or down: the handler builds its response without looking at the client.
Health(connected) ==
  /\ ops < MaxOps
  /\ ops' = ops + 1
  /\ answer' = [query |-> "health", hours |-> 0, at |-> now,
                rejected |-> FALSE,
                input |-> <<connected>>,
                status |-> 200,
                result |-> [status |-> "healthy", timestamp |-> now]]
  /\ UNCHANGED belowAnswer

\* the first n elements instead of the last n
sliceFirst(array, n) == SubSeq(array, 1, Min(n, Len(array)))

\* array.slice(-n): the last n elements, or all of them if there are fewer
sliceLast(array, n) == SubSeq(array, Max(1, Len(array) - n + 1), Len(array))

\* what the summary handler makes of the 24-hour trend
summaryHappiness(trends) ==
  LET values == [i \in 1..Len(trends) |-> trends[i].newValue.n]
  IN [current |-> IF Len(trends) > 0 THEN trends[Len(trends)].newValue.n
                  ELSE SUMMARY_DEFAULT_HAPPINESS,
      average |-> IF Len(trends) > 0 THEN roundedAverage(values)
                  ELSE SUMMARY_DEFAULT_HAPPINESS,
      trend |-> sliceLast(trends, SUMMARY_TREND_POINTS)]

\* GET /api/metrics/summary: the four queries are started together with
\* Promise.all; each reads keys of its own, and the happiness part of the
\* answer depends on the read of pet:metrics:happiness_history alone.
Summary ==
  /\ ops < MaxOps
  /\ ops' = ops + 1
  /\ answer' = [query |-> "summary", hours |-> 24, at |-> now,
                rejected |-> FALSE,
                input |-> happiness_history,
                status |-> 200,
                result |-> [happiness |->
                              summaryHappiness(getHappinessTrends(happiness_history, 24, now)),
                            activity |-> getActivityDistribution(activity_log, 24, now),
                            commands |-> getCommandStats(commands, users),
                            system |-> getSystemMetrics(response_times)]]
  /\ UNCHANGED belowAnswer

\* ------------------------------------------------- the start of a process
\* startPetEngine: redisClient.connect() and redisMetrics.connect() both
\* resolve (ok), or one rejects and the catch calls process.exit(1)
EngineConnect(ok) ==
  /\ proc["engine"] = "starting"
  /\ proc' = [proc EXCEPT !["engine"] = IF ok THEN "running" ELSE "exited"]
  /\ UNCHANGED <<petVars, gatewayVars, metricsVars, retry>>

\* the gateway: redisSubscriber.connect().then(subscribe ...) or, when the
\* connect rejects, .catch(err => console.error(...)): nothing is subscribed,
\* and server.listen has been called all the same
GatewayConnect(ok) ==
  /\ proc["gateway"] = "starting"
  /\ proc' = [proc EXCEPT !["gateway"] = IF ok THEN "running" ELSE "detached"]
  /\ UNCHANGED <<petVars, gatewayVars, metricsVars, retry>>

\* the same delay after every failed attempt
backoffDelayConstant(baseDelay, i) == baseDelay

\* baseDelay * Math.pow(2, i)
backoffDelay(baseDelay, i) == baseDelay * 2^i

\* startServer: initializeRedis has returned, app.listen and runDataCleanup
\* follow; or initializeRedis has thrown what retryWithBackoff threw and the
\* catch of startServer calls process.exit(1)
startServer(pc) ==
  [proc EXCEPT !["metrics"] = IF pc = "returned" THEN "running"
                              ELSE IF pc = "thrown" THEN "exited" ELSE @]

\* retryWithBackoff, one pass of the loop body: fn is called for the
\* (i + 1)-th time. The k-th call of fn resolves with value k or rejects with
\* error k.
RetryAttempt(ok) ==
  /\ retry.pc = "loop"
  /\ retry.i < retry.maxRetries
  /\ LET k == Len(retry.calls) + 1
         called == [retry EXCEPT !.calls = Append(@, IF ok THEN "resolved" ELSE "rejected")]
         next ==
           IF ok THEN [called EXCEPT !.pc = "returned", !.returned = k]
           ELSE IF retry.i = retry.maxRetries - 1
             THEN [called EXCEPT !.pc = "thrown", !.lastError = k, !.thrown = k]
           ELSE [called EXCEPT !.pc = "waiting", !.lastError = k,
                               !.waits = Append(@, backoffDelay(retry.baseDelay, retry.i))]
     IN /\ retry' = next
        /\ proc' = startServer(next.pc)
  /\ UNCHANGED <<petVars, gatewayVars, metricsVars>>

\* the setTimeout of the wait fires: i++
RetryWake ==
  /\ retry.pc = "waiting"
  /\ now' = now + retry.waits[Len(retry.waits)]
  /\ retry' = [retry EXCEPT !.pc = "loop", !.i = @ + 1]
  /\ UNCHANGED <<ops, redisVars, botVars, timerVars, engineVars,
                 gatewayVars, metricsVars, proc>>

\* the loop ends without a return or a throw: throw lastError!
RetryExhausted ==
  /\ retry.pc = "loop"
  /\ retry.i >= retry.maxRetries
  /\ retry' = [retry EXCEPT !.pc = "thrown", !.thrown = retry.lastError]
  /\ proc' = startServer("thrown")
  /\ UNCHANGED <<petVars, gatewayVars, metricsVars>>

\* (maxRetries, baseDelay): initializeRedis passes none, which gives the
\* defaults 3 and 1000; the other pairs are calls of the exported function
RetryArgs == {<<3, 1000>>, <<1, 1000>>, <<0, 1000>>, <<4, 250>>, <<2, 1>>}

\* the three processes have been started and none has connected yet
StartInit ==
  /\ PetInit /\ store = <<>> /\ GatewayInit /\ MetricsIdle /\ NoMetrics
  /\ proc = [c \in Components |-> "starting"]
  /\ \E args \in RetryArgs :
       retry = [NoRetry EXCEPT !.maxRetries = args[1], !.baseDelay = args[2],
                               !.pc = "loop"]

StartNext ==
  \/ \E ok \in BOOLEAN : EngineConnect(ok)
  \/ \E ok \in BOOLEAN : GatewayConnect(ok)
  \/ \E ok \in BOOLEAN : RetryAttempt(ok)
  \/ RetryWake
  \/ RetryExhausted

\* Every call of fn settles and every wait ends.
StartFairness ==
  /\ WF_vars(\E ok \in BOOLEAN : RetryAttempt(ok))
  /\ WF_vars(RetryWake)
  /\ WF_vars(RetryExhausted)

StartSpec == StartInit /\ [][StartNext]_vars /\ StartFairness

\* ------------------------------------------------------------------ Next
BotNext ==
  \/ \E i \in Cmds, c \in CommandNames : Interaction(i, c)
  \/ \E i \in Cmds : CommandSet(i)
  \/ \E i \in Cmds : CommandPublish(i)
  \/ \E i \in Cmds : HandlerLogHappiness(i)
  \/ \E i \in Cmds : CommandReply(i)
  \/ \E i \in Cmds : CommandFail(i)
  \/ \E i \in Cmds : StatsReply(i)
  \/ \E i \in Cmds : RevertGet(i)
  \/ \E i \in Cmds : RevertSet(i)
  \/ \E i \in Cmds : RevertPublish(i)

EngineNext ==
  \/ \E rand \in Draws : TickGet(rand)
  \/ \E rand \in Draws : TickLogHappiness(rand)
  \/ TickLogActivity
  \/ TickSet
  \/ TickPublish

Next == Advance \/ BotNext \/ EngineNext

Spec == Init /\ [][Next]_vars

\* The bot process on its own (the engine is another process, which may not
\* be running). Every handler that has started goes on with its next Redis
\* command unless an awaited call rejects, the clock reaches every pending
\* timer, and a due timer fires. That a command arrives is not assumed.
Fairness ==
  /\ \A i \in Cmds :
       /\ WF_vars(CommandSet(i))
       /\ WF_vars(CommandPublish(i))
       /\ WF_vars(HandlerLogHappiness(i))
       /\ WF_vars(CommandReply(i))
       /\ WF_vars(StatsReply(i))
       /\ WF_vars(TimerWait(i))
       /\ WF_vars(RevertGet(i))
       /\ WF_vars(RevertSet(i))
       /\ WF_vars(RevertPublish(i))

\* The bot's handlers with a clock that moves only to the pending timers.
LiveNext == (\E i \in Cmds : TimerWait(i)) \/ BotNext

LiveSpec == Init /\ [][LiveNext]_vars /\ Fairness

\* The engine process on its own, from startPetEngine on: the clock moves from
\* one due time of the interval to the next, and any awaited call may reject.
\* Here ops counts the invocations of updatePetBehavior.
DriverNext == IntervalWait \/ EngineNext \/ TickGetFail \/ TickFail

DriverSpec == Init /\ [][DriverNext]_vars

\* The bot has been up for more than two decay intervals when the first
\* command arrives and the engine is started.
UptimeInit ==
  /\ now = BOT_LOAD_TIME + 2 * DECAY_INTERVAL_MS + TICK_PERIOD_MS
  /\ PetStart /\ GatewayInit /\ MetricsIdle /\ NoMetrics /\ Running

UptimeSpec == UptimeInit /\ [][Next]_vars

\* The engine process on its own, running for ever with a callback of the
\* interval every period. updatePetBehavior reads pet:state and Date.now()
\* and uses the stored lastUpdate only in the difference now - lastUpdate, so
\* the run is written relative to the last due time: when the next callback
\* is due, the stored times move back by the time elapsed instead of the clock
\* moving on. What updatePetBehavior only writes and never reads (the
\* messages published, the metric lists) is counted per period.
earlier(s, d) == [s EXCEPT !.lastUpdate = @ - d]

NextPeriod ==
  /\ epc = "idle"
  /\ nextTick # NoTimer
  /\ now < nextTick
  /\ LET d == nextTick - now
     IN /\ store' = [k \in DOMAIN store |-> earlier(store[k], d)]
        /\ lastEvent' = [k \in DOMAIN lastEvent |->
                          [lastEvent[k] EXCEPT !.state = earlier(@, d),
                                               !.timestamp = @ - d]]
  /\ nextTick' = now
  /\ ops' = 0
  /\ nEvents' = 0
  /\ happiness_history' = <<>>
  /\ activity_log' = <<>>
  /\ UNCHANGED <<now, botVars, timerVars, epc, started, tcur, tnew, tickResult>>
  /\ UNCHANGED <<gatewayVars, response_times, counterVars, mpc, mjob, answer, startVars>>

DecayNext == NextPeriod \/ EngineNext

\* no awaited call rejects or hangs, and the interval keeps firing
DecayFairness ==
  /\ WF_vars(\E rand \in Draws : TickGet(rand))
  /\ WF_vars(\E rand \in Draws : TickLogHappiness(rand))
  /\ WF_vars(TickLogActivity)
  /\ WF_vars(TickSet)
  /\ WF_vars(TickPublish)
  /\ WF_vars(NextPeriod)

DecaySpec == Init /\ [][DecayNext]_vars /\ DecayFairness

\* ------------------------------------------- the metrics service's queries
\* (commandName, user.id, Date.now() - startTime) of handled commands
CommandCalls == {<<"feed", "u1", 12>>, <<"feed", "u2", 12>>, <<"stats", "u2", 0>>}
\* (oldHappiness, newHappiness) of a feed, and of a feed at 100
HappinessChanges == {<<50, 65>>, <<100, 100>>}
ActivityChanges == {<<"idle", "playing">>, <<"playing", "idle">>}
\* the hours parameter of the endpoints; 24 is the default
Windows == {1, 24}

\* What the metric keys may hold when the metrics service is asked: nothing,
\* or records the bot and the engine have written, records of the shape the
\* service's types declare, and strings that are not such records.
QuerySeeds ==
  { [h |-> <<>>, a |-> <<>>, r |-> <<>>, c |-> EmptyHash, u |-> EmptyHash],
    [h |-> << happinessRecord(50, 65, BOT_LOAD_TIME - 1000),
              NotJson,
              happinessRecord(40, 50, BOT_LOAD_TIME - 3600000),
              happinessRecord(37, 40, BOT_LOAD_TIME - 4000000) >>,
     a |-> << activityRecord("idle", "playing", BOT_LOAD_TIME - 2000),
              [Blank EXCEPT !.activity = "sleeping", !.timestamp = Num(BOT_LOAD_TIME - 500)],
              NotJson >>,
     r |-> << responseTimeRecord(30, BOT_LOAD_TIME - 10),
              [Blank EXCEPT !.responseTime = [isNumber |-> FALSE, n |-> 15],
                            !.timestamp = Num(BOT_LOAD_TIME - 20)],
              responseTimeRecord(20, BOT_LOAD_TIME - 30),
              responseTimeRecord(10, BOT_LOAD_TIME - 40) >>,
     c |-> hIncrBy(hIncrBy(EmptyHash, "feed", 2), "stats", 1),
     u |-> hIncrBy(EmptyHash, "u1", 3)],
    [h |-> << happinessRecord(65, 75, BOT_LOAD_TIME - 2000),
              happinessRecord(50, 65, BOT_LOAD_TIME - 1000),
              [Blank EXCEPT !.newValue = Num(70)] >>,
     a |-> << activityRecord("idle", "sleeping", BOT_LOAD_TIME - 100),
              activityRecord("playing", "idle", BOT_LOAD_TIME - 3700000) >>,
     r |-> << responseTimeRecord(0, BOT_LOAD_TIME - 5),
              responseTimeRecord(10, BOT_LOAD_TIME - 6),
              NotJson >>,
     c |-> EmptyHash,
     u |-> EmptyHash],
    [h |-> [k \in 1..12 |-> happinessRecord(50 + k, 49 + k, BOT_LOAD_TIME - k * 300000)],
     a |-> <<>>, r |-> <<>>, c |-> EmptyHash, u |-> EmptyHash] }

SeededMetrics(seeds) ==
  \E seed \in seeds :
    /\ happiness_history = seed.h
    /\ activity_log = seed.a
    /\ response_times = seed.r
    /\ commands = seed.c
    /\ users = seed.u

QueryInit ==
  /\ PetInit /\ store = <<>> /\ GatewayInit /\ MetricsIdle /\ Running
  /\ SeededMetrics(QuerySeeds)

QueryNext ==
  \/ \E w \in Writers, call \in CommandCalls :
       LogCommandMetrics(w, call[1], call[2], call[3])
  \/ \E w \in Writers : IncrUser(w)
  \/ \E w \in Writers : PushResponseTime(w)
  \/ \E w \in Writers : TrimResponseTimes(w)
  \/ \E w \in Writers, change \in HappinessChanges :
       LogHappinessChange(w, change[1], change[2])
  \/ \E w \in Writers, change \in HappinessChanges :
       EngineLogHappinessChange(w, change[1], change[2])
  \/ \E w \in Writers : TrimHappiness(w)
  \/ \E w \in Writers, change \in ActivityChanges :
       LogActivityChange(w, change[1], change[2])
  \/ \E w \in Writers : TrimActivity(w)
  \/ \E hours \in Windows, rejects \in BOOLEAN : HappinessTrends(hours, rejects)
  \/ \E hours \in Windows, rejects \in BOOLEAN : ActivityDistribution(hours, rejects)
  \/ \E rejects \in BOOLEAN : CommandStats(rejects)
  \/ \E rejects \in BOOLEAN : SystemMetrics(rejects)
  \/ \E connected \in BOOLEAN : Health(connected)
  \/ Summary

\* The logging calls of the bot and the engine and the queries of the metrics
\* service, on metric keys of a few records.
QuerySpec == QueryInit /\ [][QueryNext]_vars

\* ---------------------------------------------- metric lists at their caps
\* records of lists that are full: the k-th is stamped k milliseconds ago
seedHappiness(t) == happinessRecord(50, 51, t)
seedActivity(t) == activityRecord("idle", "playing", t)
seedResponseTime(t) == responseTimeRecord(7, t)

\* every list one short of its cap, or every list at its cap
FullSeeds ==
  { [h |-> [k \in 1..(HAPPINESS_TRIM_STOP + 1 - d) |-> seedHappiness(BOT_LOAD_TIME - k)],
     a |-> [k \in 1..(ACTIVITY_TRIM_STOP + 1 - d) |-> seedActivity(BOT_LOAD_TIME - k)],
     r |-> [k \in 1..(RESPONSE_TRIM_STOP + 1 - d) |-> seedResponseTime(BOT_LOAD_TIME - k)],
     c |-> EmptyHash, u |-> EmptyHash] : d \in {0, 1} }

MetricsInit ==
  /\ PetInit /\ store = <<>> /\ GatewayInit /\ MetricsIdle /\ Running
  /\ SeededMetrics(FullSeeds)

MetricsNext ==
  \/ \E w \in Writers : LogCommandMetrics(w, "feed", "u1", 12)
  \/ \E w \in Writers : IncrUser(w)
  \/ \E w \in Writers : PushResponseTime(w)
  \/ \E w \in Writers : TrimResponseTimes(w)
  \/ \E w \in Writers : LogHappinessChange(w, 50, 65)
  \/ \E w \in Writers : EngineLogHappinessChange(w, 40, 37)
  \/ \E w \in Writers : TrimHappiness(w)
  \/ \E w \in Writers : LogActivityChange(w, "idle", "playing")
  \/ \E w \in Writers : TrimActivity(w)
  \/ RunDataCleanup

\* The logging calls of the bot and the engine, and the cleanup job of the
\* metrics service, on metric lists that are full.
MetricsSpec == MetricsInit /\ [][MetricsNext]_vars

\* ================================================================ claims
Stored == store[1]

\* two states with the same happiness and the same activity
sameState(a, b) == a.happiness = b.happiness /\ a.activity = b.activity

\* the handler of command i executes its SET in this step
CommandSetStep(i) == hpc[i] = "got" /\ hpc'[i] = "set"

\* the setTimeout callback of command i executes its SET in this step
RevertSetStep(i) == tpc[i] = "got" /\ tpc'[i] = "set"

\* updatePetBehavior executes its SET in this step
TickSetStep == epc # "set" /\ epc' = "set"

\* C1: in every reachable state the persisted happiness is an integer
\* between 0 and 100, whatever feed, play, reset, the engine and the
\* auto-revert callbacks have done and however they interleaved.
C1_HappinessInRange ==
  store # <<>> => Stored.happiness \in 0..MAX_HAPPINESS

\* C1 witness: a feed read happiness 95 and its write was clamped to 100.
C1_Witness ==
  \E i \in Cmds :
    /\ cmd[i] = "feed" /\ hpc[i] = "set"
    /\ petState[i].happiness = 95
    /\ store # <<>> /\ Stored.happiness = MAX_HAPPINESS /\ Stored.activity = "eating"

\* C2: a feed and an engine call that both read the same stored state, with
\* nothing else writing, leave the store as one of the two serial orders
\* would: engine call then feed, or feed then engine call.
C2_SerialOutcome ==
  \A i \in Cmds :
    ( /\ cmd[i] = "feed" /\ hpc[i] \in {"set", "published", "logged"}
      /\ epc = "set"
      /\ petState[i] = tcur
      /\ \A j \in Cmds : tpc[j] = "none" /\ (j # i => hpc[j] = "new") )
    => LET fed == fedState(petState[i], readTime[i])
           t == Max(tnew.lastUpdate, readTime[i])
           feedThenTick ==
             [happiness |-> decayedHappiness(fed, t), activity |-> "idle"]
           tickThenFeed ==
             [happiness |-> Min(MAX_HAPPINESS, tnew.happiness + FEED_GAIN),
              activity |-> "eating"]
       IN sameState(Stored, feedThenTick) \/ sameState(Stored, tickThenFeed)

\* C3: at no time are two state-changing operations (command handlers,
\* auto-revert callbacks, the engine call) both between their read of
\* pet:state and their write of it.
C3_WritePathExclusive ==
  Cardinality({i \in Cmds : hpc[i] \in {"read", "got"} /\ setsPetState(cmd[i])})
    + Cardinality({i \in Cmds : tpc[i] = "got"})
    + (IF epc \in {"logHappiness", "logActivity", "ready"} THEN 1 ELSE 0) <= 1

\* the activity the auto-revert of command i was scheduled for
scheduledFor(i) == IF cmd[i] = "feed" THEN "eating" ELSE "playing"

\* C4: an auto-revert that fires when the stored activity is no longer the
\* one it was scheduled for writes nothing that changes the activity.
C4_StaleRevertNoOp ==
  [][\A i \in Cmds :
       (RevertSetStep(i) /\ store # <<>> /\ Stored.activity # scheduledFor(i))
         => store'[1].activity = Stored.activity]_vars

\* C5: the write of reset leaves exactly happiness 50 and activity idle in
\* the store, whatever it read and whatever timers are pending.
C5_ResetYieldsInitial ==
  [][\A i \in Cmds :
       (CommandSetStep(i) /\ cmd[i] = "reset")
         => /\ store' # <<>>
            /\ store'[1].happiness = 50
            /\ store'[1].activity = "idle"]_vars

\* C5 witness: a reset has written while a feed's timer was pending, having
\* read a state that was neither at 50 nor idle.
C5_Witness ==
  \E i, j \in Cmds :
    /\ cmd[i] = "reset" /\ hpc[i] = "set"
    /\ petState[i].happiness # 50 /\ petState[i].activity = "eating"
    /\ tpc[j] = "pending"
    /\ store # <<>> /\ Stored.happiness = 50 /\ Stored.activity = "idle"

\* C6: the write of feed persists min(100, h + 15) and eating, the write of
\* play min(100, h + 10) and playing, h being the happiness the handler read.
C6_FeedPlayEffect ==
  [][\A i \in Cmds :
       /\ (CommandSetStep(i) /\ cmd[i] = "feed")
            => /\ store'[1].happiness =
                    IF petState[i].happiness + 15 > 100 THEN 100
                    ELSE petState[i].happiness + 15
               /\ store'[1].activity = "eating"
       /\ (CommandSetStep(i) /\ cmd[i] = "play")
            => /\ store'[1].happiness =
                    IF petState[i].happiness + 10 > 100 THEN 100
                    ELSE petState[i].happiness + 10
               /\ store'[1].activity = "playing"]_vars

\* C6 witness: a play read happiness 95 and persisted 100, playing.
C6_Witness ==
  \E i \in Cmds :
    /\ cmd[i] = "play" /\ hpc[i] = "set"
    /\ petState[i].happiness = 95
    /\ store # <<>> /\ Stored.happiness = 100 /\ Stored.activity = "playing"

\* C7: once a feed or a play has committed its eating or playing state, the
\* stored activity becomes idle again: the pet does not stay in a
\* command-initiated activity for ever.
C7_RevertsToIdle ==
  \A i \in Cmds :
    (hpc[i] = "set" /\ cmd[i] \in {"feed", "play"})
      ~> (store # <<>> /\ Stored.activity = "idle")

\* The stored activity was set by a feed or play whose own timer has not
\* fired: the store holds what a handler still running has written, or it
\* holds eating (which only feed writes) and a feed's timer is pending.
commandActivityLive ==
  /\ store # <<>>
  /\ \E i \in Cmds :
       \/ /\ cmd[i] \in {"feed", "play"}
          /\ hpc[i] \in {"set", "published", "logged"}
          /\ Stored = newStateOf(i)
       \/ /\ cmd[i] = "feed"
          /\ tpc[i] = "pending"
          /\ Stored.activity = "eating"

\* C8: the engine's write never changes an eating or playing activity that a
\* command has set and whose own auto-revert timer has not fired yet.
C8_TickKeepsCommandActivity ==
  [][(TickSetStep /\ commandActivityLive)
       => store'[1].activity = Stored.activity]_vars

\* the new state updatePetBehavior computed is the state it read, in
\* happiness and in activity
tickComputedSame == sameState(tnew, tcur)

\* C9: an engine call whose computed state equals the state it read in
\* happiness and activity executes no SET and no PUBLISH: the stored record,
\* lastUpdate included, stays as it was.
C9_TickSkipsUnchanged ==
  [][((\E rand \in Draws : TickGet(rand)) /\ tickComputedSame')
       => (store' = store /\ nEvents' = nEvents /\ epc' = "idle")]_vars

\* C9 witness: the engine read a stored record, computed the same happiness
\* and activity, and returned with the record untouched and nothing published.
C9_Witness ==
  /\ tickResult = "skipped"
  /\ epc = "idle"
  /\ store = <<tcur>>
  /\ tcur.happiness = 95
  /\ tickComputedSame
  /\ tnew.lastUpdate # tcur.lastUpdate
  /\ nEvents = 0

\* C10: a command handler or an auto-revert callback whose computed state
\* equals the stored one in happiness and activity persists nothing and
\* publishes nothing.
C10_NoRedundantCommandWrite ==
  [][\A i \in Cmds :
       /\ (CommandSetStep(i) /\ store # <<>> /\ sameState(newStateOf(i), Stored))
            => store' = store
       /\ (hpc[i] = "set" /\ hpc'[i] = "published"
             /\ sameState(newStateOf(i), petState[i]))
            => nEvents' = nEvents
       /\ (RevertSetStep(i) /\ store # <<>>
             /\ sameState(revertState(currentState[i]), Stored))
            => store' = store
       /\ (tpc[i] = "set" /\ tpc'[i] = "done"
             /\ sameState(revertState(currentState[i]), currentState[i]))
            => nEvents' = nEvents]_vars

\* C11: over successive writes of pet:state, by feed, play, reset, the engine
\* or an auto-revert, the persisted lastUpdate never decreases.
C11_LastUpdateMonotonic ==
  [][(store # <<>> /\ store' # <<>>)
       => store'[1].lastUpdate >= Stored.lastUpdate]_vars

\* the handler of command i executes its PUBLISH in this step
CommandPublishStep(i) == hpc[i] = "set" /\ hpc'[i] = "published"

\* the setTimeout callback of command i executes its PUBLISH in this step
RevertPublishStep(i) == tpc[i] = "set" /\ tpc'[i] = "done"

\* updatePetBehavior executes its PUBLISH in this step
TickPublishStep == epc = "set" /\ epc' = "idle"

\* C12: a writer that has persisted a state publishes one message for it, and
\* the state in that message is the state that writer persisted. Nothing else
\* publishes: every message on pet_updates comes from such a step. (A PUBLISH
\* that Redis rejects is the subject of C38.)
C12_OneEventPerTransition ==
  [][/\ \A i \in Cmds :
          /\ CommandSetStep(i) => store' = <<newStateOf(i)>>
          /\ CommandPublishStep(i)
               => /\ nEvents' = nEvents + 1
                  /\ lastEvent'[1].state = newStateOf(i)
          /\ RevertSetStep(i) => store' = <<revertState(currentState[i])>>
          /\ RevertPublishStep(i)
               => /\ nEvents' = nEvents + 1
                  /\ lastEvent'[1].state = revertState(currentState[i])
     /\ TickSetStep => store' = <<tnew'>>
     /\ TickPublishStep
          => /\ nEvents' = nEvents + 1
             /\ lastEvent'[1].state = tnew
     /\ (nEvents' # nEvents \/ lastEvent' # lastEvent)
          => \/ TickPublishStep
             \/ \E i \in Cmds : CommandPublishStep(i) \/ RevertPublishStep(i)]_vars

\* C12 witness: a feed and a later command wrote one after the other, and the
\* feed then published the state it had persisted, which is no longer the
\* stored one.
C12_Witness ==
  \E i \in Cmds :
    /\ cmd[i] = "feed" /\ hpc[i] = "published"
    /\ lastEvent # <<>>
    /\ lastEvent[1].state = newStateOf(i)
    /\ store # <<>> /\ Stored # newStateOf(i)
    /\ nEvents = 1

\* C13: a payload that JSON.parse rejects makes the gateway emit one ERROR
\* message in its place; the gateway stays up and the valid payloads that
\* follow are emitted as they are: there is one emitted message per payload
\* received, the ERROR message for a malformed one and the parsed value for
\* a valid one.
C13_MalformedPayloadGivesError ==
  /\ gatewayUp
  /\ Len(emitted) = Len(received)
  /\ \A k \in 1..Len(received) :
       emitted[k] = IF received[k].json THEN received[k].value ELSE ErrorMessage

\* C13 witness: a malformed payload was followed by a valid one; a connected
\* viewer was sent the ERROR message and then the state update.
C13_Witness ==
  /\ Len(received) = 2
  /\ ~received[1].json
  /\ received[2].json /\ received[2].value.type = "PET_STATE_UPDATE"
  /\ \E v \in Viewers :
       /\ sockets[v] = "connected"
       /\ inbox[v] = <<ErrorMessage, received[2].value>>

\* C14: every viewer was sent exactly the messages emitted while it was
\* connected, in the order emitted: none from before its connection (no
\* replay), all of them since for a viewer still connected, and a viewer that
\* has disconnected takes nothing away from the others.
C14_FanOutInOrder ==
  \A v \in Viewers :
    /\ joined[v] + Len(inbox[v]) <= Len(emitted)
    /\ inbox[v] = SubSeq(emitted, joined[v] + 1, joined[v] + Len(inbox[v]))
    /\ sockets[v] = "new" => inbox[v] = <<>>
    /\ sockets[v] = "connected" => joined[v] + Len(inbox[v]) = Len(emitted)

\* C14 witness: three messages were emitted; one viewer connected after the
\* first and was sent the last two, another was connected from the start,
\* disconnected after the second and has the first two.
C14_Witness ==
  /\ Len(emitted) = 3
  /\ \E v, u \in Viewers :
       /\ sockets[v] = "connected" /\ joined[v] = 1
       /\ inbox[v] = SubSeq(emitted, 2, 3)
       /\ sockets[u] = "closed" /\ joined[u] = 0
       /\ inbox[u] = SubSeq(emitted, 1, 2)

\* after is what is left of before when only its cap newest elements are kept
newestKept(after, before, cap) ==
  after = SubSeq(before, 1, IF Len(before) < cap THEN Len(before) ELSE cap)

\* no logging call is between its LPUSH and its LTRIM at stage pc
noneAt(pc) == \A w \in Writers : mpc[w] # pc

\* C15: each write puts its record at the head of its list and trims the
\* list to its newest 2000 (happiness history) or 1000 (activity log,
\* response times) records, so with no write in progress on a list, the list
\* is no longer than its cap, also when several calls write the same list
\* at once.
C15_SeriesWithinCap ==
  [][/\ \A w \in Writers :
          /\ (mpc[w] = "trimHappiness" /\ mpc'[w] = "idle")
               => newestKept(happiness_history', happiness_history, 2000)
          /\ (mpc[w] = "trimActivity" /\ mpc'[w] = "idle")
               => newestKept(activity_log', activity_log, 1000)
          /\ (mpc[w] = "trimResponseTimes" /\ mpc'[w] = "idle")
               => newestKept(response_times', response_times, 1000)
     /\ Len(happiness_history') > Len(happiness_history)
          => Tail(happiness_history') = happiness_history
     /\ Len(activity_log') > Len(activity_log)
          => Tail(activity_log') = activity_log
     /\ Len(response_times') > Len(response_times)
          => Tail(response_times') = response_times
     /\ noneAt("trimHappiness")' => Len(happiness_history') <= 2000
     /\ noneAt("trimActivity")' => Len(activity_log') <= 1000
     /\ noneAt("trimResponseTimes")' => Len(response_times') <= 1000]_vars

\* C15 witness: two calls pushed onto a happiness history of 2000 records,
\* one of them has trimmed: the list holds 2000 records again, the two new
\* ones at its head, and the two oldest are gone.
C15_Witness ==
  /\ Len(happiness_history) = 2000
  /\ happiness_history[1].timestamp.n = now
  /\ happiness_history[2].timestamp.n = now
  /\ happiness_history[2000] = seedHappiness(BOT_LOAD_TIME - 1998)
  /\ \E w, v \in Writers : mpc[w] = "trimHappiness" /\ mpc[v] = "idle"

\* the record is a happiness record with its required fields
wellFormedHappiness(d) == d.json /\ d.newValue.isNumber /\ d.timestamp.isNumber

\* the number of places of list that hold d
occurrences(list, d) == Cardinality({j \in 1..Len(list) : list[j] = d})

\* C16: the answer of the happiness trend query holds exactly the well-formed
\* records of the list whose timestamp is later than the cutoff (now minus
\* the window), each as often as the list holds it, in order of
\* non-decreasing timestamp.
C16_TrendIsWindowSorted ==
  answer.query = "happinessTrends"
    => LET r == answer.result
           in == answer.input
           cutoff == answer.at - answer.hours * 3600000
           inWindow(d) == wellFormedHappiness(d) /\ d.timestamp.n > cutoff
       IN /\ \A i \in 1..Len(r) :
               \E j \in 1..Len(in) : in[j] = r[i] /\ inWindow(in[j])
          /\ \A j \in 1..Len(in) :
               inWindow(in[j]) => occurrences(r, in[j]) = occurrences(in, in[j])
          /\ Len(r) = Cardinality({j \in 1..Len(in) : inWindow(in[j])})
          /\ \A i \in 1..Len(r) - 1 : r[i].timestamp.n <= r[i + 1].timestamp.n

\* C16 witness: a one-hour trend over a list with a malformed record, a
\* record older than the cutoff and, at its head, the newest record: the
\* answer has two records, the newest last.
C16_Witness ==
  /\ answer.query = "happinessTrends" /\ answer.hours = 1
  /\ Len(answer.result) = 2
  /\ answer.result[1].timestamp.n < answer.result[2].timestamp.n
  /\ answer.result[2] = answer.input[1]
  /\ \E j \in 1..Len(answer.input) : ~answer.input[j].json
  /\ \E j \in 1..Len(answer.input) :
       /\ wellFormedHappiness(answer.input[j])
       /\ answer.input[j].timestamp.n < answer.at - 3600000

\* the record is one logActivityChange writes
isTransitionRecord(d) ==
  /\ d.json
  /\ d.newActivity \in {"idle", "playing", "sleeping", "eating"}
  /\ d.timestamp.isNumber

\* C17: over an activity log holding the records logActivityChange wrote,
\* the activity distribution gives for each activity the number of records
\* in the window whose new activity it is.
C17_DistributionCountsTransitions ==
  ( /\ answer.query = "activityDistribution"
    /\ \A j \in 1..Len(answer.input) : isTransitionRecord(answer.input[j]) )
    => \A a \in {"idle", "playing", "sleeping", "eating"} :
         answer.result[a] =
           Cardinality({j \in 1..Len(answer.input) :
                          /\ answer.input[j].newActivity = a
                          /\ answer.input[j].timestamp.n
                               > answer.at - answer.hours * 3600000})

\* C18: the counters of the commands and of the users never decrease, a
\* logCommandMetrics call adds exactly 1 to the counter of its command and
\* then exactly 1 to the counter of its user and changes no other counter,
\* and the command statistics give the sum of the command counters as
\* totalCommands and the number of users counted as totalUsers.
C18_CountersCountCommands ==
  [][/\ \A k \in DOMAIN commands : k \in DOMAIN commands' /\ commands'[k] >= commands[k]
     /\ \A k \in DOMAIN users : k \in DOMAIN users' /\ users'[k] >= users[k]
     /\ \A w \in Writers :
          /\ (mpc[w] = "idle" /\ mpc'[w] = "users")
               => /\ \A k \in CommandNames :
                       hGet(commands', k) =
                         hGet(commands, k) + (IF k = mjob'[w].command THEN 1 ELSE 0)
                  /\ users' = users
          /\ (mpc[w] = "users" /\ mpc'[w] = "push")
               => /\ \A k \in {"u1", "u2"} :
                       hGet(users', k) =
                         hGet(users, k) + (IF k = mjob[w].user THEN 1 ELSE 0)
                  /\ commands' = commands
     /\ answer'.query = "commandStats"
          => /\ answer'.result.totalCommands =
                  hGet(answer'.input[1], "feed") + hGet(answer'.input[1], "play")
                    + hGet(answer'.input[1], "reset") + hGet(answer'.input[1], "stats")
             /\ answer'.result.totalUsers = Cardinality(DOMAIN answer'.input[2])
             /\ answer'.result.commandCounts = answer'.input[1]
             /\ answer'.result.userCounts = answer'.input[2]]_vars

\* C18 witness: a feed by a user not seen before has been counted on top of
\* two earlier feeds, and the command statistics then report four commands
\* and two users.
C18_Witness ==
  /\ hGet(commands, "feed") = 3
  /\ hGet(users, "u2") = 1 /\ hGet(users, "u1") = 3
  /\ answer.query = "commandStats"
  /\ answer.result.totalCommands = 4
  /\ answer.result.totalUsers = 2

\* the record is a response-time record with its required fields
wellFormedResponseTime(d) == d.json /\ d.responseTime.isNumber /\ d.timestamp.isNumber

\* C19: the system metrics count every well-formed sample of the
\* response-time list, whatever its value and its age: totalRequests is the
\* number of well-formed samples and averageResponseTime their rounded mean.
C19_AllSamplesCounted ==
  answer.query = "systemMetrics"
    => LET in == answer.input
           wf == {j \in 1..Len(in) : wellFormedResponseTime(in[j])}
           total == sumOf([j \in 1..Len(in) |->
                             IF j \in wf THEN in[j].responseTime.n ELSE 0])
       IN /\ answer.result.totalRequests = Cardinality(wf)
          /\ wf # {} => answer.result.averageResponseTime =
                           (2 * total + Cardinality(wf)) \div (2 * Cardinality(wf))
          /\ \A j \in wf : answer.result.maxResponseTime >= in[j].responseTime.n

\* the record is an activity record of the shape the metrics service reads
wellFormedActivity(d) ==
  /\ d.json
  /\ d.activity \in {"idle", "playing", "sleeping", "eating"}
  /\ d.timestamp.isNumber

\* C20: the answer of a query over a list with malformed records is the
\* answer over the well-formed records of that list alone; with one
\* malformed record and the samples 30, 20, 10 the average response time
\* is 20.
C20_MalformedSkipped ==
  /\ answer.query = "systemMetrics"
       => /\ answer.result =
               getSystemMetrics(SelectSeq(answer.input, wellFormedResponseTime))
          /\ ( /\ Len(answer.input) = 4
               /\ ~wellFormedResponseTime(answer.input[2])
               /\ answer.input[1] = responseTimeRecord(30, BOT_LOAD_TIME - 10)
               /\ answer.input[3] = responseTimeRecord(20, BOT_LOAD_TIME - 30)
               /\ answer.input[4] = responseTimeRecord(10, BOT_LOAD_TIME - 40) )
               => answer.result.averageResponseTime = 20
  /\ answer.query = "happinessTrends"
       => answer.result =
            getHappinessTrends(SelectSeq(answer.input, wellFormedHappiness),
                               answer.hours, answer.at)
  /\ answer.query = "activityDistribution"
       => answer.result =
            getActivityDistribution(SelectSeq(answer.input, wellFormedActivity),
                                    answer.hours, answer.at)

\* C20 witness: the system metrics were asked over a malformed record and the
\* samples 30, 20 and 10, and answered an average of 20 over 3 requests.
C20_Witness ==
  /\ answer.query = "systemMetrics"
  /\ Len(answer.input) = 4
  /\ \E j \in 1..4 : ~wellFormedResponseTime(answer.input[j])
  /\ answer.result.averageResponseTime = 20
  /\ answer.result.maxResponseTime = 30
  /\ answer.result.totalRequests = 3

\* C21: The driver calls updatePetBehavior once as soon as it starts, with no
\* time passing before, and from the moment that first call returns once every
\* TICK_PERIOD_MS for as long as the process runs: by the time the k-th period
\* ends exactly k + 1 calls have been made, and the next one is due then.
C21_TickOncePerPeriod ==
  /\ ~started => (ops = 0 /\ now = BOT_LOAD_TIME /\ epc = "idle")
  /\ (started /\ epc # "exited") =>
       IF nextTick = NoTimer
         THEN ops = 1 /\ now = BOT_LOAD_TIME /\ epc # "idle"
         ELSE /\ nextTick = BOT_LOAD_TIME + ops * TICK_PERIOD_MS
              /\ nextTick - TICK_PERIOD_MS <= now
              /\ now <= nextTick

C21_Witness ==
  /\ ops = MaxOps
  /\ epc = "idle"
  /\ now = BOT_LOAD_TIME + (MaxOps - 1) * TICK_PERIOD_MS

\* C22: A call of updatePetBehavior that fails, the one made at startup
\* included, leaves the driver running with its next call scheduled.
C22_FailedTickSwallowed ==
  tickResult = "failed" => (epc # "exited" /\ nextTick # NoTimer)

\* a call made by the interval has failed and the following one was made
laterFailureSwallowed ==
  [][(tickResult = "failed" /\ epc = "idle" /\ nextTick # NoTimer)
       => (epc' = "idle" /\ nextTick' = nextTick) \/ ops' = ops + 1]_vars

\* C23: A command whose name is not feed, play or reset (stats, metrics, a
\* name the handler does not know) leaves pet:state as it is and publishes
\* nothing on pet_updates, at every step of its handler.
C23_OtherCommandsWriteNothing ==
  [][\A i \in Cmds :
       (/\ hpc'[i] # hpc[i]
        /\ \/ cmd[i] \in CommandNames \ {"feed", "play", "reset"}
           \/ cmd'[i] \in CommandNames \ {"feed", "play", "reset"})
         => (store' = store /\ nEvents' = nEvents /\ lastEvent' = lastEvent)]_vars

\* such a command has been handled to the end, over a stored state
C23_Witness ==
  /\ hpc[1] = "done"
  /\ tpc[1] = "none"
  /\ nEvents = 0
  /\ store # <<>>

\* C24: The health probe answers healthy exactly when the metrics service's
\* connection to Redis is up, and unhealthy whenever it is down.
C24_HealthFollowsBackend ==
  answer.query = "health"
    => (answer.result.status = "healthy" <=> answer.input[1])

\* updatePetBehavior starts in this step: it reads pet:state and computes
TickGetStep == \E rand \in Draws : TickGet(rand)

\* C25: The happiness updatePetBehavior computes from the state it read is
\* that state's happiness less one point for every whole DECAY_INTERVAL_MS
\* elapsed since its lastUpdate, and not less than 0: unchanged when no time
\* has elapsed, 37 from 40 after fifteen minutes. It is the happiness the
\* call then persists.
C25_DecayByWholeIntervals ==
  [][/\ TickGetStep =>
          LET h == tcur'.happiness
              elapsed == now - tcur'.lastUpdate
              new == tnew'.happiness
          IN /\ \E d \in 0..MAX_HAPPINESS :
                  /\ d * DECAY_INTERVAL_MS <= elapsed
                  /\ elapsed < (d + 1) * DECAY_INTERVAL_MS
                  /\ new = (IF h - d > 0 THEN h - d ELSE 0)
             /\ elapsed = 0 => new = h
             /\ (h = 40 /\ elapsed = 15 * 60000) => new = 37
     /\ (TickSetStep /\ ~TickGetStep) => store'[1].happiness = tnew.happiness]_vars

\* happiness 40 was read fifteen minutes after its lastUpdate, 37 was written
C25_Witness ==
  /\ epc = "set"
  /\ tcur.happiness = 40
  /\ now - tcur.lastUpdate = 15 * 60000
  /\ Stored.happiness = 37

\* updatePetBehavior decides newActivity in this step, with the draw rand:
\* at once when the happiness has not changed, else after logHappinessChange
decidesActivity(rand) ==
  \/ TickGet(rand) /\ tnew'.happiness = tcur'.happiness
  \/ TickLogHappiness(rand)

\* C26: When updatePetBehavior has read activity idle, the activity it
\* decides is sleeping for every draw if the decayed happiness is below 30;
\* otherwise playing for a draw below 0.3, sleeping for a draw from 0.3 to
\* below 0.5, idle for a draw of 0.5 or more. It is never eating, and it is
\* the activity the call persists.
C26_IdleBranch ==
  [][/\ \A rand \in Draws :
          (decidesActivity(rand) /\ tcur'.activity = "idle") =>
            /\ tnew'.happiness < 30 => tnew'.activity = "sleeping"
            /\ (tnew'.happiness >= 30 /\ rand \in 0..29) => tnew'.activity = "playing"
            /\ (tnew'.happiness >= 30 /\ rand \in 30..49) => tnew'.activity = "sleeping"
            /\ (tnew'.happiness >= 30 /\ rand \in 50..99) => tnew'.activity = "idle"
            /\ tnew'.activity # "eating"
     /\ (TickSetStep /\ ~TickGetStep) => store'[1].activity = tnew.activity]_vars

\* an idle pet with happiness below 30 was put to sleep
C26_Witness ==
  /\ epc = "set"
  /\ tcur.activity = "idle"
  /\ tnew.happiness < 30
  /\ Stored.activity = "sleeping"

\* C27: When updatePetBehavior has read activity playing or sleeping, the
\* activity it decides is that same activity if no more than 30 s have passed
\* since the lastUpdate it read, and idle otherwise; a sleeping pet with
\* happiness below 30 is not put to idle before the 30 s have passed.
C27_ActivityLastsItsDuration ==
  [][\A rand \in Draws :
       (decidesActivity(rand) /\ tcur'.activity \in {"playing", "sleeping"}) =>
         /\ now - tcur'.lastUpdate <= 30000 => tnew'.activity = tcur'.activity
         /\ now - tcur'.lastUpdate > 30000 => tnew'.activity = "idle"
         /\ (/\ tcur'.activity = "sleeping"
             /\ tnew'.happiness < 30
             /\ now - tcur'.lastUpdate <= 30000) => tnew'.activity = "sleeping"]_vars

\* a pet asleep for 20 s with happiness 25 was left asleep by the call
C27_Witness ==
  /\ tickResult = "skipped"
  /\ tcur.activity = "sleeping"
  /\ tcur.happiness = 25
  /\ now - tcur.lastUpdate <= 30000
  /\ tnew.activity = "sleeping"
  /\ store = <<tcur>>

\* a state update of the shape setPetState publishes
wellFormedUpdate(m) ==
  /\ m.type = "PET_STATE_UPDATE"
  /\ m.state.happiness \in 0..MAX_HAPPINESS
  /\ m.state.activity \in {"idle", "playing", "sleeping", "eating"}
  /\ m.timestamp \in Nat

\* C28: Every message the gateway emits to its viewers is a well-formed state
\* update (type tag, state with happiness in 0..100 and one of the four
\* activities, timestamp) or an ERROR message: a payload that is JSON of
\* another shape is not passed on as it is.
C28_EmitsOnlyStateOrError ==
  \A k \in 1..Len(emitted) :
    emitted[k].type = "ERROR" \/ wellFormedUpdate(emitted[k])

\* C29: After a run of the cleanup job each metric list is within its own
\* cap (happiness history 2000, activity log 1000, response times 1000),
\* whatever its length was before the run.
C29_CleanupEnforcesCaps ==
  [][RunDataCleanup =>
       /\ Len(happiness_history') <= 2000
       /\ Len(activity_log') <= 1000
       /\ Len(response_times') <= 1000]_vars

\* list holds a happiness record old -> new written at time since or later
hasHappinessRecord(list, old, new, since) ==
  \E k \in DOMAIN list :
    /\ list[k].oldValue = Num(old)
    /\ list[k].newValue = Num(new)
    /\ list[k].timestamp.isNumber
    /\ list[k].timestamp.n >= since

\* list holds an activity record old -> new written at time since or later
hasActivityRecord(list, old, new, since) ==
  \E k \in DOMAIN list :
    /\ list[k].oldActivity = old
    /\ list[k].newActivity = new
    /\ list[k].timestamp.isNumber
    /\ list[k].timestamp.n >= since

\* C30: An operation that has persisted a state whose activity differs from
\* the one it read (feed to eating, play to playing, reset to idle, an
\* auto-revert to idle, an engine call) has appended a record of that
\* transition to the activity log by the time it ends, and one that has
\* persisted a different happiness has appended a record of that change to
\* the happiness history.
C30_TransitionsAreLogged ==
  [][/\ \A i \in Cmds :
          /\ (hpc[i] # "done" /\ hpc'[i] = "done" /\ setsPetState(cmd[i])) =>
               /\ newStateOf(i).happiness # petState[i].happiness
                    => hasHappinessRecord(happiness_history', petState[i].happiness,
                                          newStateOf(i).happiness, readTime[i])
               /\ newStateOf(i).activity # petState[i].activity
                    => hasActivityRecord(activity_log', petState[i].activity,
                                         newStateOf(i).activity, readTime[i])
          /\ (RevertPublishStep(i) /\ currentState[i].activity # "idle")
               => hasActivityRecord(activity_log', currentState[i].activity, "idle", due[i])
     /\ (TickPublishStep /\ tickResult' = "written") =>
          /\ tnew.happiness # tcur.happiness
               => hasHappinessRecord(happiness_history', tcur.happiness,
                                     tnew.happiness, tcur.lastUpdate)
          /\ tnew.activity # tcur.activity
               => hasActivityRecord(activity_log', tcur.activity,
                                    tnew.activity, tcur.lastUpdate)]_vars

\* the part of C30 that the engine's calls and the happiness of the bot's
\* commands satisfy
loggedExceptBotActivity ==
  [][/\ \A i \in Cmds :
          (hpc[i] # "done" /\ hpc'[i] = "done" /\ setsPetState(cmd[i])) =>
            (newStateOf(i).happiness # petState[i].happiness
               => hasHappinessRecord(happiness_history', petState[i].happiness,
                                     newStateOf(i).happiness, readTime[i]))
     /\ (TickPublishStep /\ tickResult' = "written") =>
          /\ tnew.happiness # tcur.happiness
               => hasHappinessRecord(happiness_history', tcur.happiness,
                                     tnew.happiness, tcur.lastUpdate)
          /\ tnew.activity # tcur.activity
               => hasActivityRecord(activity_log', tcur.activity,
                                    tnew.activity, tcur.lastUpdate)]_vars

\* C31: The summary gives as happiness trend the last 10 points of the
\* 24-hour trend, or all of them if there are fewer, in ascending time order;
\* as current happiness the new value of the latest point; and 50 as current
\* and as average happiness when the trend has no point.
C31_SummaryOfTrend ==
  answer.query = "summary"
    => LET full == getHappinessTrends(answer.input, 24, answer.at)
           r == answer.result.happiness
           n == IF Len(full) < 10 THEN Len(full) ELSE 10
       IN /\ Len(r.trend) = n
          /\ \A i \in 1..n : r.trend[i] = full[Len(full) - n + i]
          /\ \A i \in 1..n - 1 : r.trend[i].timestamp.n <= r.trend[i + 1].timestamp.n
          /\ \A i \in 1..Len(full) : full[i].timestamp.n <= r.trend[1].timestamp.n
                \/ \E j \in 1..n : r.trend[j] = full[i]
          /\ Len(full) > 0 => r.current = full[Len(full)].newValue.n
          /\ Len(full) = 0 => (r.current = 50 /\ r.average = 50)

\* a summary over a trend of more than ten points
C31_Witness ==
  /\ answer.query = "summary"
  /\ Len(getHappinessTrends(answer.input, 24, answer.at)) > 10
  /\ Len(answer.result.happiness.trend) = 10
  /\ answer.result.happiness.current =
       answer.result.happiness.trend[10].newValue.n

\* a summary over an empty trend
summaryOfNothing ==
  /\ answer.query = "summary"
  /\ answer.result.happiness.trend = <<>>
  /\ answer.result.happiness.current = 50

\* C32: A metrics query (happiness trend, activity distribution, command
\* statistics, system metrics) whose read of Redis was rejected is answered
\* with an error, not with a successful empty or zero result.
C32_ReadFailureReported ==
  (answer.query \in {"happinessTrends", "activityDistribution",
                     "commandStats", "systemMetrics"} /\ answer.rejected)
    => answer.status >= 400

\* the number of rejected calls of fn so far
failedAttempts ==
  Cardinality({k \in 1..Len(retry.calls) : retry.calls[k] = "rejected"})

\* what holds of retryWithBackoff at every moment of a call
retryInvariant ==
  /\ Len(retry.calls) <= retry.maxRetries
  /\ \A k \in 1..Len(retry.calls) - 1 : retry.calls[k] = "rejected"
  /\ retry.pc = "returned" <=>
       (retry.calls # <<>> /\ retry.calls[Len(retry.calls)] = "resolved")
  /\ retry.pc = "returned" => retry.returned = Len(retry.calls)
  /\ Len(retry.waits) =
       (IF retry.pc = "thrown" /\ failedAttempts > 0
          THEN failedAttempts - 1 ELSE failedAttempts)
  /\ \A k \in 1..Len(retry.waits) : retry.waits[k] = retry.baseDelay * 2^(k - 1)
  /\ (retry.pc = "thrown" /\ retry.maxRetries >= 1)
       => /\ Len(retry.calls) = retry.maxRetries
          /\ failedAttempts = retry.maxRetries
          /\ retry.thrown = retry.maxRetries

\* C33: retryWithBackoff(fn, maxRetries, baseDelay) ends, by a return or a
\* throw. It calls fn at most maxRetries times and not again after a call
\* that resolved, whose value it returns; after the i-th rejected call
\* (i from 0) it waits baseDelay * 2^i, except after the last; when all
\* maxRetries calls were rejected it throws the error of the last one.
C33_RetryTerminates ==
  []retryInvariant /\ <>(retry.pc \in {"returned", "thrown"})

\* three rejected calls with the defaults: waits of 1000 and 2000, error 3
C33_Witness ==
  /\ retry.maxRetries = 3
  /\ retry.pc = "thrown"
  /\ retry.calls = <<"rejected", "rejected", "rejected">>
  /\ retry.waits = <<1000, 2000>>
  /\ retry.thrown = 3
  /\ now = BOT_LOAD_TIME + 3000

\* the start of component c met a connect that failed for good
connectFailed(c) == proc[c] \in {"detached", "exited"}

\* C34: in the engine, the metrics service and the gateway, a failure to
\* connect to Redis at the start makes the process exit; none goes on
\* running without its connection or subscription.
C34_ConnectFailureIsFatal ==
  \A c \in Components : connectFailed(c) => proc[c] = "exited"

\* C35: with no commands and a tick every 60-second period for ever, the
\* stored happiness eventually is 0, whatever the random draws are.
C35_DecayReachesZero == <>(store # <<>> /\ store[1].happiness = 0)

\* C36: the write of an auto-revert callback changes the activity only: the
\* happiness stored right after its SET is the happiness stored right before
\* it, also when a feed or play was written between the callback's read and
\* its write.
C36_RevertKeepsHappiness ==
  [][\A i \in Cmds :
       (tpc[i] = "got" /\ tpc'[i] = "set")
         => getPetState(store').happiness = getPetState(store).happiness]_vars

\* no handler, callback or tick is between its start and its end, and none
\* was cut short by a rejected call
noOperationInFlight ==
  /\ \A i \in Cmds : hpc[i] \in {"new", "done"} /\ tpc[i] \in {"none", "pending", "done"}
  /\ epc = "idle"

\* C37: whenever no state-changing operation is in flight, the state carried
\* by the last message published on pet_updates is the state held in
\* pet:state, also after the bot and the engine have written concurrently.
C37_LastEventIsStore ==
  (noOperationInFlight /\ lastEvent # <<>>)
    => (store # <<>> /\ lastEvent[1].state = store[1])

\* C38: a feed or play whose eating/playing state was written to pet:state
\* ends with its auto-revert timer scheduled, whether the publish, the
\* metrics write and the reply that follow the SET succeed or fail.
C38_PersistedMeansScheduled ==
  [][\A i \in Cmds :
       (/\ cmd[i] \in {"feed", "play"}
        /\ hpc[i] \in {"set", "published", "logged"}
        /\ hpc'[i] \in {"done", "failed"})
         => tpc'[i] = "pending"]_vars

\* C39: an updatePetBehavior that starts less than one decay interval after
\* the write of a reset, with that write still in pet:state, computes the
\* happiness 50: the decay counts from the last write of the state, not from
\* an earlier time such as the start of the bot.
C39_NoDecayRightAfterReset ==
  [][\A i \in Cmds :
       (/\ cmd[i] = "reset"
        /\ hpc[i] \in {"set", "published"}
        /\ store = <<newStateOf(i)>>
        /\ now - readTime[i] < DECAY_INTERVAL_MS
        /\ TickGetStep)
         => tnew'.happiness = RESET_HAPPINESS]_vars

\* C40: pet:metrics:happiness_history is a chain of the transitions written:
\* in the order of insertion (the list has the newest first) every record's
\* oldValue is the newValue of the record before it and its change is
\* newValue - oldValue, and, with no operation in flight, the newest
\* record's newValue is the happiness in pet:state, whatever the
\* interleaving of commands and ticks.
C40_HistoryIsChain ==
  /\ \A k \in 1..Len(happiness_history) :
       /\ happiness_history[k].change.n =
            happiness_history[k].newValue.n - happiness_history[k].oldValue.n
       /\ k < Len(happiness_history)
            => happiness_history[k].oldValue.n = happiness_history[k + 1].newValue.n
  /\ (noOperationInFlight /\ happiness_history # <<>>)
       => happiness_history[1].newValue.n = getPetState(store).happiness
====
